---- MODULE Spec2Model ----
(***************************************************************************)
(* Timeline persistence of the video editor backend                        *)
(* (src/backend/app/backend/command_api.py): the versioned JSON document,  *)
(* its migrator, its validators, the codec and the robust loader.          *)
(*                                                                         *)
(* Encoding of values.                                                     *)
(*   - A time in seconds is an integer number of ticks, TicksPerSecond     *)
(*     ticks to the second; frame rates of the model divide                *)
(*     TicksPerSecond, so frame / frame_rate is exact.                     *)
(*   - A JSON object is a function from its keys to its values; a missing  *)
(*     key is a key outside DOMAIN (dict.get(key, default) is Get).        *)
(*   - A JSON value of an unexpected type is one of the sentinels NotNum,  *)
(*     NotDict, NotList; JSON null / Python None is NoneNum or NoneStr.    *)
(***************************************************************************)
EXTENDS Integers, Sequences, FiniteSets, TLC

\* ------------------------------------------------------------------ bounds
MaxClips == 2
MaxTracks == 2

\* --------------------------------------------------------------- encoding
TicksPerSecond == 120

NotNum == -999999
NoneNum == -999998
NoneStr == "<None>"
NotDict == [json_type |-> "string"]
NotList == << NotDict >>

IsNum(x) == x # NotNum /\ x # NoneNum
IsDict(d) == d # NotDict
IsList(l) == l # NotList

Get(d, k, default) == IF k \in DOMAIN d THEN d[k] ELSE default

S(n) == n * TicksPerSecond

Abs(x) == IF x < 0 THEN 0 - x ELSE x

Max(a, b) == IF a > b THEN a ELSE b

RECURSIVE SeqMax(_, _)
SeqMax(s, acc) == IF s = << >> THEN acc ELSE SeqMax(Tail(s), Max(acc, Head(s)))

Range(s) == { s[k] : k \in 1..Len(s) }

RECURSIVE Flatten(_)
Flatten(ss) == IF ss = << >> THEN << >> ELSE Head(ss) \o Flatten(Tail(ss))

Err(m) == [msg |-> m, a |-> "", b |-> "", x |-> 0, y |-> 0]

\* ------------------------------------------------------------ time domain
\* round(): nearest integer, ties to the even one
Round(n, d) ==
  LET q == n \div d
      r == n % d
  IN  IF 2 * r < d THEN q
      ELSE IF 2 * r > d THEN q + 1
      ELSE IF q % 2 = 0 THEN q ELSE q + 1

seconds_to_frames(seconds, frame_rate) == Round(seconds * frame_rate, TicksPerSecond)

frames_to_seconds(frame, frame_rate) == (frame * TicksPerSecond) \div frame_rate

\* ----------------------------------------------------------- entity model
TIMELINE_SCHEMA_VERSION == "2.0"

TrackTypes == {"video", "audio", "subtitle", "effect", "text", "image"}

VideoClip(name, start_frame, end_frame, track_type, file_path, clip_id, in_point, track_index) ==
  [ name |-> name, start |-> start_frame, end |-> end_frame, track_type |-> track_type,
    file_path |-> file_path, clip_id |-> clip_id, in_point |-> in_point,
    track_index |-> track_index, effects |-> << >>, track |-> 0 ]

Timeline(frame_rate) == [ frame_rate |-> frame_rate, clips |-> << >> ]

\* Timeline.add_clip: the clip joins the track (clip.track_type, track_index)
add_clip(timeline, clip, track_index) ==
  [ timeline EXCEPT !.clips = Append(@, [clip EXCEPT !.track = track_index]) ]

\* Timeline.get_all_clips(track_type): the clips of the tracks of this type
get_all_clips(timeline, track_type) ==
  SelectSeq(timeline.clips, LAMBDA c : c.track_type = track_type)

\* Timeline.tracks: the (track_type, track_index) pairs that hold a clip
Tracks(timeline) ==
  { <<c.track_type, c.track>> : c \in Range(timeline.clips) }

TrackClips(timeline, tr) ==
  SelectSeq(timeline.clips, LAMBDA c : c.track_type = tr[1] /\ c.track = tr[2])

get_duration_seconds(timeline) ==
  SeqMax([k \in 1..Len(timeline.clips) |->
            frames_to_seconds(timeline.clips[k].end, timeline.frame_rate)], 0)

get_timeline_start_seconds(clip, timeline) == frames_to_seconds(clip.start, timeline.frame_rate)

get_timeline_end_seconds(clip, timeline) == frames_to_seconds(clip.end, timeline.frame_rate)

get_clip_duration_seconds(clip, timeline) ==
  frames_to_seconds(clip.end - clip.start, timeline.frame_rate)

get_source_in_point_seconds(clip, timeline) == frames_to_seconds(clip.in_point, timeline.frame_rate)

\* Effect.to_dict / Effect.from_dict
effect_to_dict(effect) == [type |-> effect.effect_type, properties |-> effect.properties]

effect_from_dict(d) == [effect_type |-> d.type, properties |-> d.properties]

\* ------------------------------------------------------------- validators
NotStr == "<non-string>"

Truthy(x) == x # "" /\ x # NoneStr

\* validate_timeline_json_structure raises (AttributeError on .get) when the
\* "timeline" member is not an object
validate_timeline_json_structure_raises(timeline_json) ==
  "timeline" \in DOMAIN timeline_json /\ ~IsDict(timeline_json["timeline"])

validate_timeline_json_structure(timeline_json) ==
  LET e1 == IF "version" \notin DOMAIN timeline_json THEN << Err("Missing version field") >>
            ELSE IF timeline_json["version"] = NotStr THEN << Err("Version must be a string") >>
            ELSE << >>
      timeline_data == timeline_json["timeline"]
      frame_rate == Get(timeline_data, "frame_rate", NoneNum)
      duration == Get(timeline_data, "duration", NoneNum)
      e2 == IF "timeline" \notin DOMAIN timeline_json THEN << Err("Missing timeline metadata") >>
            ELSE (IF frame_rate = NoneNum THEN << Err("Missing frame_rate in timeline metadata") >>
                  ELSE IF ~IsNum(frame_rate) \/ frame_rate <= 0 THEN << Err("Invalid frame_rate") >>
                  ELSE << >>)
                 \o
                 (IF duration # NoneNum /\ (~IsNum(duration) \/ duration < 0)
                  THEN << Err("Invalid duration") >> ELSE << >>)
      e3 == IF "clips" \notin DOMAIN timeline_json THEN << Err("Missing clips array") >>
            ELSE IF ~IsList(timeline_json["clips"]) THEN << Err("Clips must be an array") >>
            ELSE << >>
      e4 == IF "version" \notin DOMAIN timeline_json
            THEN << Err("Missing required field: version") >> ELSE << >>
      errors == e1 \o e2 \o e3 \o e4
  IN  [ valid |-> (Len(errors) = 0), errors |-> errors ]

ValidClipTypes == {"video", "audio", "subtitle", "effect", "image", "text"}

RequiredFieldErrors(clip_data, field) ==
  IF field \notin DOMAIN clip_data THEN << Err("Missing required field: " \o field) >>
  ELSE IF ~Truthy(clip_data[field]) THEN << Err("Empty required field: " \o field) >>
  ELSE << >>

\* validate_clip_data raises when the record is not an object, or when an
\* ordering comparison or a subtraction meets a value that is not a number
validate_clip_data_raises(clip_data) ==
  \/ ~IsDict(clip_data)
  \/ LET timeline_start == Get(clip_data, "timeline_start", NoneNum)
         timeline_end == Get(clip_data, "timeline_end", NoneNum)
         duration == Get(clip_data, "duration", NoneNum)
     IN  /\ timeline_start # NoneNum
         /\ timeline_end # NoneNum
         /\ \/ timeline_start = NotNum
            \/ timeline_end = NotNum
            \/ duration = NotNum

\* mutant: a duration that is not positive is accepted
validate_clip_data_any_duration(clip_data) ==
  LET timeline_start == Get(clip_data, "timeline_start", NoneNum)
      timeline_end == Get(clip_data, "timeline_end", NoneNum)
      duration == Get(clip_data, "duration", NoneNum)
      in_point == Get(clip_data, "in_point", NoneNum)
      track == Get(clip_data, "track", NoneNum)
      clip_type == Get(clip_data, "type", NoneStr)
      e1 == RequiredFieldErrors(clip_data, "id") \o RequiredFieldErrors(clip_data, "name")
      e2 == IF timeline_start = NoneNum THEN << >>
            ELSE IF timeline_start = NotNum THEN << Err("Invalid timeline_start type") >>
            ELSE IF timeline_start < 0 THEN << Err("Negative timeline_start") >>
            ELSE << >>
      e3 == IF timeline_end = NoneNum THEN << >>
            ELSE IF timeline_end = NotNum THEN << Err("Invalid timeline_end type") >>
            ELSE IF timeline_end < 0 THEN << Err("Negative timeline_end") >>
            ELSE << >>
      e4 == IF timeline_start # NoneNum /\ timeline_end # NoneNum /\ timeline_end <= timeline_start
            THEN << Err("timeline_end must be greater than timeline_start") >> ELSE << >>
      e5 == IF duration = NoneNum THEN << >>
            ELSE (IF duration = NotNum THEN << Err("Invalid duration type") >>
                  ELSE << >>)
                 \o
                 (IF /\ timeline_start # NoneNum
                     /\ timeline_end # NoneNum
                     /\ Abs(duration - (timeline_end - timeline_start)) * 100 > TicksPerSecond
                  THEN << Err("Duration doesn't match timeline positions") >> ELSE << >>)
      e6 == IF in_point = NoneNum THEN << >>
            ELSE IF in_point = NotNum THEN << Err("Invalid in_point type") >>
            ELSE IF in_point < 0 THEN << Err("Negative in_point") >>
            ELSE << >>
      e7 == IF track = NoneNum THEN << >>
            ELSE IF track = NotNum THEN << Err("Invalid track type") >>
            ELSE IF track < 0 THEN << Err("Negative track index") >>
            ELSE << >>
      e8 == IF clip_type # NoneStr /\ clip_type \notin ValidClipTypes
            THEN << Err("Invalid clip type") >> ELSE << >>
      errors == e1 \o e2 \o e3 \o e4 \o e5 \o e6 \o e7 \o e8
  IN  [ valid |-> (Len(errors) = 0), errors |-> errors ]

validate_clip_data(clip_data) ==
  LET timeline_start == Get(clip_data, "timeline_start", NoneNum)
      timeline_end == Get(clip_data, "timeline_end", NoneNum)
      duration == Get(clip_data, "duration", NoneNum)
      in_point == Get(clip_data, "in_point", NoneNum)
      track == Get(clip_data, "track", NoneNum)
      clip_type == Get(clip_data, "type", NoneStr)
      e1 == RequiredFieldErrors(clip_data, "id") \o RequiredFieldErrors(clip_data, "name")
      e2 == IF timeline_start = NoneNum THEN << >>
            ELSE IF timeline_start = NotNum THEN << Err("Invalid timeline_start type") >>
            ELSE IF timeline_start < 0 THEN << Err("Negative timeline_start") >>
            ELSE << >>
      e3 == IF timeline_end = NoneNum THEN << >>
            ELSE IF timeline_end = NotNum THEN << Err("Invalid timeline_end type") >>
            ELSE IF timeline_end < 0 THEN << Err("Negative timeline_end") >>
            ELSE << >>
      e4 == IF timeline_start # NoneNum /\ timeline_end # NoneNum /\ timeline_end <= timeline_start
            THEN << Err("timeline_end must be greater than timeline_start") >> ELSE << >>
      e5 == IF duration = NoneNum THEN << >>
            ELSE (IF duration = NotNum THEN << Err("Invalid duration type") >>
                  ELSE IF duration <= 0 THEN << Err("Non-positive duration") >>
                  ELSE << >>)
                 \o
                 (IF /\ timeline_start # NoneNum
                     /\ timeline_end # NoneNum
                     /\ Abs(duration - (timeline_end - timeline_start)) * 100 > TicksPerSecond
                  THEN << Err("Duration doesn't match timeline positions") >> ELSE << >>)
      e6 == IF in_point = NoneNum THEN << >>
            ELSE IF in_point = NotNum THEN << Err("Invalid in_point type") >>
            ELSE IF in_point < 0 THEN << Err("Negative in_point") >>
            ELSE << >>
      e7 == IF track = NoneNum THEN << >>
            ELSE IF track = NotNum THEN << Err("Invalid track type") >>
            ELSE IF track < 0 THEN << Err("Negative track index") >>
            ELSE << >>
      e8 == IF clip_type # NoneStr /\ clip_type \notin ValidClipTypes
            THEN << Err("Invalid clip type") >> ELSE << >>
      errors == e1 \o e2 \o e3 \o e4 \o e5 \o e6 \o e7 \o e8
  IN  [ valid |-> (Len(errors) = 0), errors |-> errors ]

\* --------------------------------------------------------------- migrator
VideoClipMarker == "VideoClip"

IsMarked(clip) == IsDict(clip) /\ Get(clip, "_type", NoneStr) = VideoClipMarker

current_version(timeline_json) == Get(timeline_json, "version", "1.0")

MigrateClipRaises(clip, frame_rate) ==
  \/ ~IsNum(frame_rate)
  \/ frame_rate = 0
  \/ ~IsNum(Get(clip, "start", 0))
  \/ ~IsNum(Get(clip, "end", 0))
  \/ ~IsNum(Get(clip, "in_point", 0))

\* migrate_timeline_schema raises on a v1.0 document whose tracks are not a
\* list of objects, or whose marked clips cannot be divided by frame_rate
migrate_timeline_schema_raises(timeline_json) ==
  /\ current_version(timeline_json) = "1.0"
  /\ LET tracks == Get(timeline_json, "tracks", << >>)
     IN  \/ ~IsList(tracks)
         \/ \E t \in 1..Len(tracks) :
              \/ ~IsDict(tracks[t])
              \/ ~IsList(Get(tracks[t], "clips", << >>))
              \/ \E c \in 1..Len(Get(tracks[t], "clips", << >>)) :
                   /\ IsMarked(tracks[t]["clips"][c])
                   /\ MigrateClipRaises(tracks[t]["clips"][c],
                                        Get(timeline_json, "frame_rate", 30))

\* mutant: the duration is the end, not end - start
migrated_clip_duration_is_end(clip, frame_rate) ==
  [ id |-> Get(clip, "clip_id", Get(clip, "id", NoneStr)),
    name |-> Get(clip, "name", ""),
    file_path |-> Get(clip, "file_path", ""),
    timeline_start |-> frames_to_seconds(Get(clip, "start", 0), frame_rate),
    timeline_end |-> frames_to_seconds(Get(clip, "end", 0), frame_rate),
    duration |-> frames_to_seconds(Get(clip, "end", 0), frame_rate),
    in_point |-> frames_to_seconds(Get(clip, "in_point", 0), frame_rate),
    track |-> Get(clip, "track_index", 0),
    type |-> Get(clip, "track_type", "video"),
    effects |-> Get(clip, "effects", << >>) ]

migrated_clip(clip, frame_rate) ==
  [ id |-> Get(clip, "clip_id", Get(clip, "id", NoneStr)),
    name |-> Get(clip, "name", ""),
    file_path |-> Get(clip, "file_path", ""),
    timeline_start |-> frames_to_seconds(Get(clip, "start", 0), frame_rate),
    timeline_end |-> frames_to_seconds(Get(clip, "end", 0), frame_rate),
    duration |-> frames_to_seconds(Get(clip, "end", 0) - Get(clip, "start", 0), frame_rate),
    in_point |-> frames_to_seconds(Get(clip, "in_point", 0), frame_rate),
    track |-> Get(clip, "track_index", 0),
    type |-> Get(clip, "track_type", "video"),
    effects |-> Get(clip, "effects", << >>) ]

\* mutant: every clip of the track is converted, marked or not
MigratedTrackClips_unfiltered(track, frame_rate) ==
  LET all == Get(track, "clips", << >>)
  IN  [ k \in 1..Len(all) |-> migrated_clip(all[k], frame_rate) ]

MigratedTrackClips(track, frame_rate) ==
  LET marked == SelectSeq(Get(track, "clips", << >>), IsMarked)
  IN  [ k \in 1..Len(marked) |-> migrated_clip(marked[k], frame_rate) ]

migrate_v1(timeline_json, now) ==
  LET tracks == Get(timeline_json, "tracks", << >>)
      frame_rate == Get(timeline_json, "frame_rate", 30)
      clips == Flatten([ t \in 1..Len(tracks) |-> MigratedTrackClips(tracks[t], frame_rate) ])
  IN  [ version |-> TIMELINE_SCHEMA_VERSION,
        timeline |-> [ frame_rate |-> frame_rate, width |-> 1920, height |-> 1080,
                       sample_rate |-> 48000, channels |-> 2,
                       duration |-> SeqMax([k \in 1..Len(clips) |-> clips[k].timeline_end], 0) ],
        clips |-> clips,
        transitions |-> Get(timeline_json, "transitions", << >>),
        metadata |-> [ created_at |-> now, updated_at |-> now,
                       schema_version |-> TIMELINE_SCHEMA_VERSION,
                       migrated_from |-> current_version(timeline_json) ] ]

\* mutant: every version other than "2.0" is migrated as if it were "1.0"
migrate_timeline_schema_any_old(timeline_json, now) ==
  IF current_version(timeline_json) = "2.0" THEN timeline_json
  ELSE migrate_v1(timeline_json, now)

\* mutant: no early return for a "2.0" document
migrate_timeline_schema_no_return(timeline_json, now) ==
  IF current_version(timeline_json) \in {"1.0", "2.0"} THEN migrate_v1(timeline_json, now)
  ELSE timeline_json

\* the document migrate_timeline_schema returns (when it does not raise)
migrate_timeline_schema(timeline_json, now) ==
  IF current_version(timeline_json) = "2.0" THEN timeline_json
  ELSE IF current_version(timeline_json) = "1.0" THEN migrate_v1(timeline_json, now)
  ELSE timeline_json

\* the log records migrate_timeline_schema emits
migrate_timeline_schema_log(timeline_json) ==
  IF current_version(timeline_json) = "2.0" THEN << >>
  ELSE IF current_version(timeline_json) = "1.0" THEN << "INFO: Migrating timeline schema" >>
  ELSE << "INFO: Migrating timeline schema", "WARNING: Unknown timeline schema version" >>

\* -------------------------------------------------------------- documents
\* Legacy (v1.0) clip records, frame-indexed.  The documented legacy shape
\* has no "_type" member; the marked ones carry _type = "VideoClip".
LegacyClipA ==
  [ clip_id |-> "c1", name |-> "n1", start |-> 0, end |-> 150, in_point |-> 0,
    track_index |-> 0, track_type |-> "video", effects |-> << >>, file_path |-> "a.mp4" ]

LegacyClipB ==
  [ clip_id |-> "c2", name |-> "n2", start |-> 60, end |-> 120, in_point |-> 30,
    track_index |-> 1, track_type |-> "audio", effects |-> << >>, file_path |-> "b.mp3" ]

Marked(clip) == ("_type" :> VideoClipMarker) @@ clip

LegacyClips == { LegacyClipA, Marked(LegacyClipA), Marked(LegacyClipB) }

SeqsUpTo(set, n) == UNION { [1..k -> set] : k \in 0..n }

LegacyTracks == { [clips |-> cs] : cs \in SeqsUpTo(LegacyClips, MaxClips) }

LegacyDocs ==
  { [version |-> "1.0", frame_rate |-> 30, tracks |-> ts] :
      ts \in SeqsUpTo(LegacyTracks, MaxTracks) }
  \cup
  { [version |-> "1.0", frame_rate |-> 24, tracks |-> ts] : ts \in SeqsUpTo(LegacyTracks, 1) }
  \cup
  { [version |-> "1.0", tracks |-> << [clips |-> cs] >>] : cs \in SeqsUpTo(LegacyClips, 1) }
  \cup
  { [version |-> "1.0", frame_rate |-> 0, tracks |-> << [clips |-> cs] >>] :
      cs \in SeqsUpTo(LegacyClips, 1) }

UnknownVersions == {"0.5", "3.0", "10.0"}

\* current (v2.0) clip records, seconds-indexed, by kind
ClipKinds == {"ok", "fx", "text", "late", "noname", "negstart", "endle", "badtrack", "negtrack"}

Ids == << "c1", "c2", "c3", "c4" >>

Names == << "n1", "n2", "n3", "n4" >>

FadeEffect == [type |-> "fade", properties |-> [amount |-> 1]]

ClipRecord(kind, n) ==
  LET base == [ id |-> Ids[n], name |-> Names[n], file_path |-> "a.mp4",
                timeline_start |-> S(0), timeline_end |-> S(5), duration |-> S(5),
                in_point |-> 0, track |-> 0, type |-> "video", effects |-> << >> ]
  IN  CASE kind = "ok" -> base
        [] kind = "fx" -> [ base EXCEPT !.file_path = "b.mp3", !.type = "audio", !.track = 1,
                                        !.timeline_start = S(5), !.timeline_end = S(8),
                                        !.duration = S(3), !.in_point = S(1),
                                        !.effects = << FadeEffect >> ]
        [] kind = "text" -> [ base EXCEPT !.file_path = NoneStr, !.type = "text",
                                          !.timeline_end = S(2), !.duration = S(2) ]
        [] kind = "late" -> [ base EXCEPT !.timeline_start = S(4), !.timeline_end = S(8),
                                          !.duration = S(4) ]
        [] kind = "noname" -> [ base EXCEPT !.name = "" ]
        [] kind = "negstart" -> [ base EXCEPT !.timeline_start = 0 - S(2),
                                              !.timeline_end = S(3), !.file_path = "c.mp4" ]
        [] kind = "endle" -> [ base EXCEPT !.timeline_start = S(4), !.timeline_end = S(4),
                                           !.duration = 0 ]
        [] kind = "badtrack" -> [ base EXCEPT !.track = NotNum ]
        [] kind = "negtrack" -> [ base EXCEPT !.track = 0 - 1 ]

ClipLists(n) ==
  { [k \in 1..Len(ks) |-> ClipRecord(ks[k], k)] : ks \in SeqsUpTo(ClipKinds, n) }

Header(frame_rate, duration) ==
  [ frame_rate |-> frame_rate, width |-> 1920, height |-> 1080,
    sample_rate |-> 48000, channels |-> 2, duration |-> duration ]

CurrentDoc(version, frame_rate, clips) ==
  [ version |-> version,
    timeline |-> Header(frame_rate, SeqMax([k \in 1..Len(clips) |-> clips[k].timeline_end], 0)),
    clips |-> clips,
    transitions |-> << >>,
    metadata |-> [ created_at |-> 0, updated_at |-> 0, schema_version |-> version ] ]

CurrentDocs == { CurrentDoc("2.0", 30, cs) : cs \in ClipLists(MaxClips) }

UnknownVersionDocs ==
  { CurrentDoc(v, 30, cs) : v \in UnknownVersions, cs \in ClipLists(1) }
  \cup
  { [version |-> v, frame_rate |-> 30, tracks |-> << [clips |-> cs] >>] :
      v \in UnknownVersions, cs \in SeqsUpTo(LegacyClips, 1) }

\* documents that differ from a well-formed current document in one place
HeaderVariantDocs ==
  LET good(cs) == CurrentDoc("2.0", 30, cs)
      without(d, key) == [k \in DOMAIN d \ {key} |-> d[k]]
  IN  UNION { { without(good(cs), "timeline"),
                without(good(cs), "clips"),
                without(good(cs), "version"),
                [good(cs) EXCEPT !.timeline = NotDict],
                [good(cs) EXCEPT !.clips = NotList],
                [good(cs) EXCEPT !.version = NotStr],
                [good(cs) EXCEPT !.timeline.frame_rate = 200],
                [good(cs) EXCEPT !.timeline.frame_rate = 0],
                [good(cs) EXCEPT !.timeline.frame_rate = NotNum],
                [good(cs) EXCEPT !.timeline.frame_rate = 24] } : cs \in ClipLists(1) }

LoaderDocs == CurrentDocs \cup HeaderVariantDocs \cup LegacyDocs \cup UnknownVersionDocs

\* ----------------------------------------------------------------- codec
\* str < str of Python, on the version strings of the model
VersionChars(v) ==
  CASE v = "0.5" -> << 48, 46, 53 >>
    [] v = "1.0" -> << 49, 46, 48 >>
    [] v = "10.0" -> << 49, 48, 46, 48 >>
    [] v = "2.0" -> << 50, 46, 48 >>
    [] v = "3.0" -> << 51, 46, 48 >>

RECURSIVE LexLess(_, _)
LexLess(a, b) ==
  IF b = << >> THEN FALSE
  ELSE IF a = << >> THEN TRUE
  ELSE IF Head(a) < Head(b) THEN TRUE
  ELSE IF Head(a) > Head(b) THEN FALSE
  ELSE LexLess(Tail(a), Tail(b))

\* schema_version < "2.0"
IsOlderVersion(schema_version) ==
  LexLess(VersionChars(schema_version), VersionChars(TIMELINE_SCHEMA_VERSION))

EffectsOf(clip_data) ==
  LET effects == Get(clip_data, "effects", NotList)
  IN  IF IsList(effects) THEN [k \in 1..Len(effects) |-> effect_from_dict(effects[k])]
      ELSE << >>

create_video_clip_from_json_raises(clip_data) ==
  \/ ~IsDict(clip_data)
  \/ "name" \notin DOMAIN clip_data
  \/ ~IsNum(Get(clip_data, "timeline_start", Get(clip_data, "start", 0)))
  \/ ~IsNum(Get(clip_data, "timeline_end", Get(clip_data, "end", 0)))
  \/ ~IsNum(Get(clip_data, "in_point", 0))

create_video_clip_from_json(clip_data, timeline) ==
  LET start_seconds == Get(clip_data, "timeline_start", Get(clip_data, "start", 0))
      end_seconds == Get(clip_data, "timeline_end", Get(clip_data, "end", 0))
      in_point_seconds == Get(clip_data, "in_point", 0)
      clip == VideoClip(clip_data["name"],
                        seconds_to_frames(start_seconds, timeline.frame_rate),
                        seconds_to_frames(end_seconds, timeline.frame_rate),
                        Get(clip_data, "type", "video"),
                        Get(clip_data, "file_path", NoneStr),
                        Get(clip_data, "id", NoneStr),
                        seconds_to_frames(in_point_seconds, timeline.frame_rate),
                        Get(clip_data, "track", 0))
  IN  [clip EXCEPT !.effects = EffectsOf(clip_data)]

\* mutant: an end that is not after the start becomes one frame after it
create_video_clip_from_json_robust_one_frame(clip_data, timeline) ==
  LET start_raw == Get(clip_data, "timeline_start", Get(clip_data, "start", 0))
      end_raw == Get(clip_data, "timeline_end", Get(clip_data, "end", 0))
      in_point_raw == Get(clip_data, "in_point", 0)
      start_seconds == IF start_raw < 0 THEN 0 ELSE start_raw
      in_point_seconds == IF in_point_raw < 0 THEN 0 ELSE in_point_raw
      start_frame == seconds_to_frames(start_seconds, timeline.frame_rate)
      clip == VideoClip(Get(clip_data, "name", "Unknown Clip"),
                        start_frame,
                        IF end_raw <= start_seconds THEN start_frame + 1
                        ELSE seconds_to_frames(end_raw, timeline.frame_rate),
                        Get(clip_data, "type", "video"),
                        Get(clip_data, "file_path", NoneStr),
                        Get(clip_data, "id", NoneStr),
                        seconds_to_frames(in_point_seconds, timeline.frame_rate),
                        Get(clip_data, "track", 0))
  IN  IF ~IsNum(start_raw) \/ ~IsNum(end_raw) \/ ~IsNum(in_point_raw)
      THEN VideoClip(Get(clip_data, "name", "Error Clip"), 0, 30, "video",
                     Get(clip_data, "file_path", NoneStr), Get(clip_data, "id", NoneStr), 0, 0)
      ELSE [clip EXCEPT !.effects = EffectsOf(clip_data)]

create_video_clip_from_json_robust(clip_data, timeline) ==
  LET start_raw == Get(clip_data, "timeline_start", Get(clip_data, "start", 0))
      end_raw == Get(clip_data, "timeline_end", Get(clip_data, "end", 0))
      in_point_raw == Get(clip_data, "in_point", 0)
      start_seconds == IF start_raw < 0 THEN 0 ELSE start_raw
      end_seconds == IF end_raw <= start_seconds THEN start_seconds + S(1) ELSE end_raw
      in_point_seconds == IF in_point_raw < 0 THEN 0 ELSE in_point_raw
      clip == VideoClip(Get(clip_data, "name", "Unknown Clip"),
                        seconds_to_frames(start_seconds, timeline.frame_rate),
                        seconds_to_frames(end_seconds, timeline.frame_rate),
                        Get(clip_data, "type", "video"),
                        Get(clip_data, "file_path", NoneStr),
                        Get(clip_data, "id", NoneStr),
                        seconds_to_frames(in_point_seconds, timeline.frame_rate),
                        Get(clip_data, "track", 0))
  IN  IF ~IsNum(start_raw) \/ ~IsNum(end_raw) \/ ~IsNum(in_point_raw)
      THEN VideoClip(Get(clip_data, "name", "Error Clip"), 0, 30, "video",
                     Get(clip_data, "file_path", NoneStr), Get(clip_data, "id", NoneStr), 0, 0)
      ELSE [clip EXCEPT !.effects = EffectsOf(clip_data)]

\* get_asset_duration: None, or the duration of the primary asset
AssetDurations == { NoneNum, S(10) }

PrimaryClip(duration) ==
  VideoClip("primary", 0, seconds_to_frames(duration, 30), "video", "asset", "primary", 0, 0)

create_default_timeline(duration) ==
  IF duration = NoneNum THEN Timeline(30)
  ELSE add_clip(Timeline(30), PrimaryClip(duration), 0)

\* ---------------------------------------------------- integrity validator
RECURSIVE InsertByStart(_, _)
InsertByStart(sorted, c) ==
  IF sorted = << >> THEN << c >>
  ELSE IF Head(sorted).start <= c.start THEN << Head(sorted) >> \o InsertByStart(Tail(sorted), c)
  ELSE << c >> \o sorted

\* list.sort(key = start): stable
RECURSIVE SortByStart(_)
SortByStart(clips) ==
  IF clips = << >> THEN << >>
  ELSE InsertByStart(SortByStart(SubSeq(clips, 1, Len(clips) - 1)), clips[Len(clips)])

\* the tracks in the order in which they received their first clip
RECURSIVE TrackSeq(_, _)
TrackSeq(clips, seen) ==
  IF clips = << >> THEN << >>
  ELSE LET tr == << Head(clips).track_type, Head(clips).track >>
       IN  IF tr \in seen THEN TrackSeq(Tail(clips), seen)
           ELSE << tr >> \o TrackSeq(Tail(clips), seen \cup {tr})

\* ------------------------------------------------------------ encoding
create_timeline_json_schema(clips, timeline, now) ==
  [ version |-> TIMELINE_SCHEMA_VERSION,
    timeline |-> Header(timeline.frame_rate, get_duration_seconds(timeline)),
    clips |-> [ k \in 1..Len(clips) |->
                  [ id |-> clips[k].clip_id,
                    name |-> clips[k].name,
                    file_path |-> clips[k].file_path,
                    timeline_start |-> get_timeline_start_seconds(clips[k], timeline),
                    timeline_end |-> get_timeline_end_seconds(clips[k], timeline),
                    duration |-> get_clip_duration_seconds(clips[k], timeline),
                    in_point |-> get_source_in_point_seconds(clips[k], timeline),
                    track |-> clips[k].track_index,
                    type |-> clips[k].track_type,
                    effects |-> [ e \in 1..Len(clips[k].effects) |->
                                    effect_to_dict(clips[k].effects[e]) ] ] ],
    transitions |-> << >>,
    metadata |-> [ created_at |-> now, updated_at |-> now,
                   schema_version |-> TIMELINE_SCHEMA_VERSION ] ]

\* the track types whose clips save_timeline_to_db_enhanced collects
SavedTrackTypes == << "video", "audio", "subtitle", "effect" >>

\* all_clips of save_timeline_to_db_enhanced
CollectClips(timeline) ==
  Flatten([ k \in 1..Len(SavedTrackTypes) |-> get_all_clips(timeline, SavedTrackTypes[k]) ])

\* Timeline.to_dict, the legacy (v1.0) document of a timeline
to_dict(timeline) ==
  LET tracks == TrackSeq(timeline.clips, {})
  IN  [ version |-> "1.0",
        frame_rate |-> timeline.frame_rate,
        tracks |-> [ t \in 1..Len(tracks) |->
                       [ clips |-> [ k \in 1..Len(TrackClips(timeline, tracks[t])) |->
                           LET c == TrackClips(timeline, tracks[t])[k]
                           IN  Marked([ clip_id |-> c.clip_id, name |-> c.name,
                                        start |-> c.start, end |-> c.end,
                                        in_point |-> c.in_point, track_index |-> c.track_index,
                                        track_type |-> c.track_type,
                                        effects |-> [ e \in 1..Len(c.effects) |->
                                                        effect_to_dict(c.effects[e]) ],
                                        file_path |-> c.file_path ]) ] ] ] ]

\* save_timeline_to_db_enhanced: the document the store holds afterwards and
\* how the call ends, given which of its two store writes fail
save_timeline_to_db_enhanced(timeline, stored, first_fails, second_fails, now) ==
  IF ~first_fails
  THEN [ stored |-> [present |-> TRUE,
                     doc |-> create_timeline_json_schema(CollectClips(timeline), timeline, now)],
         outcome |-> "saved" ]
  ELSE IF ~second_fails
  THEN [ stored |-> [present |-> TRUE, doc |-> to_dict(timeline)], outcome |-> "saved_legacy" ]
  ELSE [ stored |-> stored, outcome |-> "raised" ]

\* mutant: clips that touch count as overlapping
IsOverlap_touching(current, next) == current.end >= next.start

IsOverlap(current, next) == current.end > next.start

\* mutant: the scan of a track stops at its first overlap
OverlapErrors_first_only(track_type, sorted) ==
  LET hit == SelectSeq([k \in 1..(Len(sorted) - 1) |-> k],
                       LAMBDA k : IsOverlap(sorted[k], sorted[k + 1]))
  IN  [ n \in 1..(IF Len(hit) > 0 THEN 1 ELSE 0) |->
          [ msg |-> "Clip overlap detected on track " \o track_type,
            a |-> sorted[hit[n]].name, b |-> sorted[hit[n] + 1].name,
            x |-> sorted[hit[n]].end, y |-> sorted[hit[n] + 1].start ] ]

OverlapErrors(track_type, sorted) ==
  LET hit == SelectSeq([k \in 1..(Len(sorted) - 1) |-> k],
                       LAMBDA k : IsOverlap(sorted[k], sorted[k + 1]))
  IN  [ n \in 1..Len(hit) |->
          [ msg |-> "Clip overlap detected on track " \o track_type,
            a |-> sorted[hit[n]].name, b |-> sorted[hit[n] + 1].name,
            x |-> sorted[hit[n]].end, y |-> sorted[hit[n] + 1].start ] ]

HoursLimit == 24

ClipTimingErrors(clip, frame_rate) ==
  (IF clip.end <= clip.start
   THEN << [Err("Invalid clip timing") EXCEPT !.a = clip.name, !.x = clip.end, !.y = clip.start] >>
   ELSE << >>)
  \o
  (IF clip.end - clip.start > HoursLimit * 3600 * frame_rate
   THEN << [Err("Suspiciously long clip") EXCEPT !.a = clip.name] >>
   ELSE << >>)

\* mutant: the clips of a track are scanned in the order of the timeline
validate_timeline_integrity_unsorted(timeline) ==
  LET tracks == TrackSeq(timeline.clips, {})
      overlaps == Flatten([ t \in 1..Len(tracks) |->
                     OverlapErrors(tracks[t][1], TrackClips(timeline, tracks[t])) ])
      negative == IF get_duration_seconds(timeline) < 0
                  THEN << Err("Negative timeline duration") >> ELSE << >>
      all_clips == Flatten([ t \in 1..Len(tracks) |-> TrackClips(timeline, tracks[t]) ])
      timing == Flatten([ k \in 1..Len(all_clips) |->
                     ClipTimingErrors(all_clips[k], timeline.frame_rate) ])
      errors == overlaps \o negative \o timing
  IN  [ valid |-> (Len(errors) = 0), errors |-> errors ]

validate_timeline_integrity(timeline) ==
  LET tracks == TrackSeq(timeline.clips, {})
      overlaps == Flatten([ t \in 1..Len(tracks) |->
                     OverlapErrors(tracks[t][1], SortByStart(TrackClips(timeline, tracks[t]))) ])
      negative == IF get_duration_seconds(timeline) < 0
                  THEN << Err("Negative timeline duration") >> ELSE << >>
      all_clips == Flatten([ t \in 1..Len(tracks) |-> TrackClips(timeline, tracks[t]) ])
      timing == Flatten([ k \in 1..Len(all_clips) |->
                     ClipTimingErrors(all_clips[k], timeline.frame_rate) ])
      errors == overlaps \o negative \o timing
  IN  [ valid |-> (Len(errors) = 0), errors |-> errors ]

\* ---------------------------------------------------------- robust loader
NewLoadingStats ==
  [ total_clips |-> 0, loaded_clips |-> 0, failed_clips |-> 0, missing_assets |-> 0,
    validation_errors |-> << >>, performance_metrics |-> {} ]

Extend(stats, errors) ==
  [ stats EXCEPT !.validation_errors = @ \o errors ]

NoTimeline == [ frame_rate |-> 0, clips |-> << >> ]

NoResult == [ kind |-> "none", timeline |-> NoTimeline, has_stats |-> FALSE,
              via |-> "", error |-> "" ]

Returned(timeline, has_stats, via) ==
  [ kind |-> "returned", timeline |-> timeline, has_stats |-> has_stats,
    via |-> via, error |-> "" ]

Raised(error) ==
  [ kind |-> "raised", timeline |-> NoTimeline, has_stats |-> FALSE,
    via |-> "", error |-> error ]

\* mutant: the except branch of the clip loop does not count the failure
ClipFailed_uncounted(timeline, stats, error) ==
  [ timeline |-> timeline,
    stats |-> Extend(stats, << Err("Failed to load clip") >>),
    error |-> error ]

\* the except branch of the clip loop: count the failure, keep the timeline
ClipFailed(timeline, stats, error) ==
  [ timeline |-> timeline,
    stats |-> Extend([stats EXCEPT !.failed_clips = @ + 1], << Err("Failed to load clip") >>),
    error |-> error ]

\* the end of the try branch of the clip loop: add the clip, count it
ClipLoaded(clip_data, timeline, stats) ==
  LET track_index == Get(clip_data, "track", 0)
      video_clip == create_video_clip_from_json_robust(clip_data, timeline)
      stats1 == IF track_index < 0 THEN Extend(stats, << Err("Invalid track index, using 0") >>)
                ELSE stats
  IN  [ timeline |-> add_clip(timeline, video_clip, IF track_index < 0 THEN 0 ELSE track_index),
        stats |-> [stats1 EXCEPT !.loaded_clips = @ + 1],
        error |-> "" ]

\* mutant: a record that fails the validator is skipped and counted as failed
LoadClip_skip_invalid(clip_data, timeline, stats, check_assets, partial, asset_exists) ==
  IF validate_clip_data_raises(clip_data) THEN ClipFailed(timeline, stats, "AttributeError")
  ELSE
    LET clip_validation == validate_clip_data(clip_data)
        stats1 == IF clip_validation.valid THEN stats ELSE Extend(stats, clip_validation.errors)
        file_path == Get(clip_data, "file_path", NoneStr)
        missing == check_assets /\ Truthy(file_path) /\ ~asset_exists
        stats2 == IF missing
                  THEN Extend([stats1 EXCEPT !.missing_assets = @ + 1], << Err("Missing asset") >>)
                  ELSE stats1
    IN  IF ~clip_validation.valid THEN ClipFailed(timeline, stats1, "ValueError")
        ELSE IF missing /\ ~partial THEN ClipFailed(timeline, stats2, "FileNotFoundError")
        ELSE IF ~IsNum(Get(clip_data, "track", 0)) THEN ClipFailed(timeline, stats2, "TypeError")
        ELSE ClipLoaded(clip_data, timeline, stats2)

\* one iteration of the clip loop of load_timeline_from_db_robust
LoadClip(clip_data, timeline, stats, check_assets, partial, asset_exists) ==
  IF validate_clip_data_raises(clip_data) THEN ClipFailed(timeline, stats, "AttributeError")
  ELSE
    LET clip_validation == validate_clip_data(clip_data)
        stats1 == IF clip_validation.valid THEN stats ELSE Extend(stats, clip_validation.errors)
        file_path == Get(clip_data, "file_path", NoneStr)
        missing == check_assets /\ Truthy(file_path) /\ ~asset_exists
        stats2 == IF missing
                  THEN Extend([stats1 EXCEPT !.missing_assets = @ + 1], << Err("Missing asset") >>)
                  ELSE stats1
    IN  IF ~clip_validation.valid /\ ~partial THEN ClipFailed(timeline, stats1, "ValueError")
        ELSE IF missing /\ ~partial THEN ClipFailed(timeline, stats2, "FileNotFoundError")
        ELSE IF ~IsNum(Get(clip_data, "track", 0)) THEN ClipFailed(timeline, stats2, "TypeError")
        ELSE ClipLoaded(clip_data, timeline, stats2)

\* load_timeline_from_db_enhanced, after its fetch returned a document
enhanced_decode_raises(timeline_json) ==
  \/ ~IsDict(timeline_json)
  \/ current_version(timeline_json) = NotStr
  \/ /\ IsOlderVersion(current_version(timeline_json))
     /\ migrate_timeline_schema_raises(timeline_json)
  \/ LET doc == IF IsOlderVersion(current_version(timeline_json))
                THEN migrate_timeline_schema(timeline_json, 0) ELSE timeline_json
         timeline_data == Get(doc, "timeline", << >>)
         clips == Get(doc, "clips", << >>)
     IN  \/ ~IsDict(timeline_data)
         \/ ~IsList(clips)
         \/ \E k \in 1..Len(clips) :
              \/ create_video_clip_from_json_raises(clips[k])
              \/ ~IsNum(Get(timeline_data, "frame_rate", 30))
              \/ ~IsNum(Get(clips[k], "track", 0))

RECURSIVE AddAll(_, _)
AddAll(timeline, clips_data) ==
  IF clips_data = << >> THEN timeline
  ELSE AddAll(add_clip(timeline, create_video_clip_from_json(Head(clips_data), timeline),
                       Get(Head(clips_data), "track", 0)),
              Tail(clips_data))

enhanced_decode(timeline_json, now) ==
  LET doc == IF IsOlderVersion(current_version(timeline_json))
             THEN migrate_timeline_schema(timeline_json, now) ELSE timeline_json
  IN  AddAll(Timeline(Get(Get(doc, "timeline", << >>), "frame_rate", 30)),
             Get(doc, "clips", << >>))

\* Timeline.from_dict, the legacy decoder: what it can read of the document
from_dict(timeline_json) == Timeline(30)

\* load_timeline_from_db_enhanced: fetch, decode, legacy decode, default
load_timeline_from_db_enhanced(fetch_fails, stored, legacy_ok, duration, now) ==
  IF fetch_fails THEN Raised("PersistenceError")
  ELSE IF ~stored.present THEN Returned(create_default_timeline(duration), FALSE, "new")
  ELSE IF ~enhanced_decode_raises(stored.doc)
       THEN Returned(enhanced_decode(stored.doc, now), FALSE, "enhanced")
  ELSE IF legacy_ok THEN Returned(from_dict(stored.doc), FALSE, "legacy")
  ELSE Returned(create_default_timeline(duration), FALSE, "default")

\* mutant: the final fallback hands back the timeline built so far
final_fallback_partial(partial_timeline, duration) ==
  Returned(partial_timeline, TRUE, "default")

\* the final fallback of the except branch of load_timeline_from_db_robust
final_fallback(partial_timeline, duration) ==
  Returned(create_default_timeline(duration), TRUE, "default")

VARIABLES store, pc, validate_assets, allow_partial_load, timeline_json, loading_stats,
          timeline, idx, result, trace, fetch_raised, caught

loaderLocals == << pc, validate_assets, allow_partial_load, timeline_json, loading_stats,
                   timeline, idx, result, trace, fetch_raised, caught >>

loaderVars == << store, loaderLocals >>

Stored(doc) == [ present |-> TRUE, doc |-> doc ]

NoDoc == [absent |-> TRUE]

NotStored == [ present |-> FALSE, doc |-> NoDoc ]

LoaderIdle ==
  /\ pc = "idle"
  /\ validate_assets = FALSE
  /\ allow_partial_load = FALSE
  /\ timeline_json = NoDoc
  /\ loading_stats = NewLoadingStats
  /\ timeline = NoTimeline
  /\ idx = 0
  /\ result = NoResult
  /\ trace = << >>
  /\ fetch_raised = {}
  /\ caught = ""

\* --------------------------------------------------------- migration runs
VARIABLES m_pc, m_input, m_once, m_twice, m_log, clock

migrateVars == << m_pc, m_input, m_once, m_twice, m_log, clock >>

VARIABLES c_pc, c_timeline, c_saved, c_loaded

codecVars == << c_pc, c_timeline, c_saved, c_loaded >>

VARIABLES i_pc, i_timeline, i_result

integrityVars == << i_pc, i_timeline, i_result >>

\* ------------------------------------------------- the other components
\* seconds-to-frames conversions
VARIABLES t_pc, t_seconds, t_rate, t_clip

convertVars == << t_pc, t_seconds, t_rate, t_clip >>

ConvertIdle ==
  /\ t_pc = "off"
  /\ t_seconds = 0
  /\ t_rate = 30
  /\ t_clip = VideoClip("", 0, 0, "video", "", "", 0, 0)

\* GESProjectService: the service lock and the calls of the threads
VARIABLES lock, stack, clip_count, preview_pipeline

lockVars == << lock, stack, clip_count, preview_pipeline >>

Threads == {1, 2}

LockIdle ==
  /\ lock = 0
  /\ stack = [t \in Threads |-> << >>]
  /\ clip_count = 0
  /\ preview_pipeline = FALSE

\* ---- further components
\* projects_api: the timeline markers of one project
VARIABLES markers, marker_adds, marker_removes, marker_response

markerVars == << markers, marker_adds, marker_removes, marker_response >>

NoResponse == [op |-> "none", status |-> 0, marker_id |-> 0, before |-> {}]

MarkersIdle ==
  /\ markers = {}
  /\ marker_adds = 0
  /\ marker_removes = 0
  /\ marker_response = NoResponse

\* GESProjectService: the assets and the clips of one project
VARIABLES project_assets, project_clips, service_call

assetVars == << project_assets, project_clips, service_call >>

None == "None"

\* the key of no clip
NoClip == << 0 - 1, 0 - 1 >>

NoCall == [op |-> "none", asset_id |-> None, clip_id |-> NoClip, result |-> None]

AssetsIdle ==
  /\ project_assets = {}
  /\ project_clips = {}
  /\ service_call = NoCall

\* export_api: the jobs of the ExportJobManager and their processing tasks
VARIABLES jobs, active_jobs, tasks, cancel_answer

exportVars == << jobs, active_jobs, tasks, cancel_answer >>

MaxJobs == 3

JobIds == 1..MaxJobs

NoAnswer == [job_id |-> 0, answer |-> FALSE, status_before |-> "absent"]

\* jobs[j] holds the statuses that job j has had, in the order in which
\* update_job_status set them; the job is absent while it has had none
ExportIdle ==
  /\ jobs = [j \in JobIds |-> << >>]
  /\ active_jobs = {}
  /\ tasks = [j \in JobIds |-> "none"]
  /\ cancel_answer = NoAnswer

\* cache_service: one InMemoryCache
VARIABLES cache, max_size, now, cache_answer

cacheVars == << cache, max_size, now, cache_answer >>

NoValue == "None"

NoGet == [key |-> "", value |-> NoValue, expires_at |-> NoneNum, checked_at |-> 0]

CacheIdle ==
  /\ cache = << >>
  /\ max_size = 1
  /\ now = 0
  /\ cache_answer = NoGet

componentVars == << convertVars, lockVars, markerVars, assetVars, exportVars, cacheVars >>

ComponentsIdle ==
  /\ ConvertIdle
  /\ LockIdle
  /\ MarkersIdle
  /\ AssetsIdle
  /\ ExportIdle
  /\ CacheIdle

\* the components other than the one that runs
othersOfConvert == << lockVars, markerVars, assetVars, exportVars, cacheVars >>

OthersOfConvertIdle ==
  /\ LockIdle
  /\ MarkersIdle
  /\ AssetsIdle
  /\ ExportIdle
  /\ CacheIdle

othersOfLock == << convertVars, markerVars, assetVars, exportVars, cacheVars >>

OthersOfLockIdle ==
  /\ ConvertIdle
  /\ MarkersIdle
  /\ AssetsIdle
  /\ ExportIdle
  /\ CacheIdle

othersOfMarkers == << convertVars, lockVars, assetVars, exportVars, cacheVars >>

OthersOfMarkersIdle ==
  /\ ConvertIdle
  /\ LockIdle
  /\ AssetsIdle
  /\ ExportIdle
  /\ CacheIdle

othersOfAssets == << convertVars, lockVars, markerVars, exportVars, cacheVars >>

OthersOfAssetsIdle ==
  /\ ConvertIdle
  /\ LockIdle
  /\ MarkersIdle
  /\ ExportIdle
  /\ CacheIdle

othersOfExport == << convertVars, lockVars, markerVars, assetVars, cacheVars >>

OthersOfExportIdle ==
  /\ ConvertIdle
  /\ LockIdle
  /\ MarkersIdle
  /\ AssetsIdle
  /\ CacheIdle

othersOfCache == << convertVars, lockVars, markerVars, assetVars, exportVars >>

OthersOfCacheIdle ==
  /\ ConvertIdle
  /\ LockIdle
  /\ MarkersIdle
  /\ AssetsIdle
  /\ ExportIdle

VARIABLES v_pc, v_record, v_result

validatorVars == << v_pc, v_record, v_result >>

vars == << loaderVars, migrateVars, codecVars, integrityVars, validatorVars, componentVars >>

ValidatorIdle ==
  /\ v_pc = "off"
  /\ v_record = NoDoc
  /\ v_result = [valid |-> TRUE, errors |-> << >>]

CodecIdle ==
  /\ c_pc = "off"
  /\ c_timeline = NoTimeline
  /\ c_saved = "none"
  /\ c_loaded = NoResult

IntegrityIdle ==
  /\ i_pc = "off"
  /\ i_timeline = NoTimeline
  /\ i_result = [valid |-> TRUE, errors |-> << >>]

MigrateDocs == LegacyDocs \cup CurrentDocs \cup UnknownVersionDocs

InitMigrate ==
  /\ m_pc = "start"
  /\ m_input \in MigrateDocs
  /\ m_once = NoDoc
  /\ m_twice = NoDoc
  /\ m_log = << >>
  /\ clock = 1
  /\ store = NotStored
  /\ LoaderIdle
  /\ CodecIdle
  /\ IntegrityIdle
  /\ ValidatorIdle
  /\ ComponentsIdle

\* migrate_timeline_schema(d) returns
MigrateOnce ==
  /\ m_pc = "start"
  /\ ~migrate_timeline_schema_raises(m_input)
  /\ m_once' = migrate_timeline_schema(m_input, clock)
  /\ m_log' = migrate_timeline_schema_log(m_input)
  /\ clock' = clock + 1
  /\ m_pc' = "once"
  /\ UNCHANGED << m_input, m_twice, loaderVars, codecVars, integrityVars, validatorVars, componentVars >>

\* migrate_timeline_schema(d) raises (ZeroDivisionError, TypeError)
MigrateRaises ==
  /\ m_pc = "start"
  /\ migrate_timeline_schema_raises(m_input)
  /\ m_pc' = "raised"
  /\ UNCHANGED << m_input, m_once, m_twice, m_log, clock, loaderVars, codecVars, integrityVars, validatorVars, componentVars >>

\* migrate_timeline_schema applied to the document it returned
MigrateTwice ==
  /\ m_pc = "once"
  /\ ~migrate_timeline_schema_raises(m_once)
  /\ m_twice' = migrate_timeline_schema(m_once, clock)
  /\ m_log' = m_log \o migrate_timeline_schema_log(m_once)
  /\ clock' = clock + 1
  /\ m_pc' = "twice"
  /\ UNCHANGED << m_input, m_once, loaderVars, codecVars, integrityVars, validatorVars, componentVars >>

NextMigrate == MigrateOnce \/ MigrateRaises \/ MigrateTwice

SpecMigrate == InitMigrate /\ [][NextMigrate]_vars

MigrateIdle ==
  /\ m_pc = "off"
  /\ m_input = NoDoc
  /\ m_once = NoDoc
  /\ m_twice = NoDoc
  /\ m_log = << >>

\* ------------------------------------------- robust loader: state machine
Init ==
  /\ store \in { NotStored } \cup { Stored(d) : d \in LoaderDocs }
  /\ LoaderIdle
  /\ MigrateIdle
  /\ CodecIdle
  /\ IntegrityIdle
  /\ ValidatorIdle
  /\ ComponentsIdle
  /\ clock = 1

\* load_timeline_from_db_robust(asset_path, validate_assets, allow_partial_load)
CallRobust ==
  /\ pc = "idle"
  /\ validate_assets' \in BOOLEAN
  /\ allow_partial_load' \in BOOLEAN
  /\ loading_stats' = NewLoadingStats
  /\ pc' = "step1"
  /\ UNCHANGED << store, timeline_json, timeline, idx, result, trace, fetch_raised, caught,
                  migrateVars, codecVars, integrityVars, validatorVars, componentVars >>

EnterRecover(error) ==
  /\ pc' = "recover"
  /\ caught' = error
  /\ trace' = Append(trace, "recover")

\* step 1, load_timeline_from_db raises
FetchRaises ==
  /\ pc = "step1"
  /\ EnterRecover("PersistenceError")
  /\ fetch_raised' = fetch_raised \cup {"robust"}
  /\ UNCHANGED << store, validate_assets, allow_partial_load, timeline_json, loading_stats,
                  timeline, idx, result, migrateVars, codecVars, integrityVars, validatorVars, componentVars >>

\* step 1, no row for the asset: the new-project path
FetchAbsent ==
  /\ pc = "step1"
  /\ ~store.present
  /\ \E duration \in AssetDurations :
       result' = Returned(create_default_timeline(duration), FALSE, "new")
  /\ pc' = "done"
  /\ trace' = Append(trace, "fetch")
  /\ UNCHANGED << store, validate_assets, allow_partial_load, timeline_json, loading_stats,
                  timeline, idx, fetch_raised, caught, migrateVars, codecVars, integrityVars, validatorVars, componentVars >>

\* step 1, the stored document is fetched
FetchDocument ==
  /\ pc = "step1"
  /\ store.present
  /\ timeline_json' = store.doc
  /\ pc' = "step2"
  /\ trace' = Append(trace, "fetch")
  /\ UNCHANGED << store, validate_assets, allow_partial_load, loading_stats,
                  timeline, idx, result, fetch_raised, caught, migrateVars, codecVars, integrityVars, validatorVars, componentVars >>

\* step 2, the structural validator raises
ValidateStructureRaises ==
  /\ pc = "step2"
  /\ validate_timeline_json_structure_raises(timeline_json)
  /\ EnterRecover("AttributeError")
  /\ UNCHANGED << store, validate_assets, allow_partial_load, timeline_json, loading_stats,
                  timeline, idx, result, fetch_raised, migrateVars, codecVars, integrityVars, validatorVars, componentVars >>

\* step 2, invalid structure in strict mode: return create_default_timeline
ValidateStructureAborts ==
  /\ pc = "step2"
  /\ ~validate_timeline_json_structure_raises(timeline_json)
  /\ ~validate_timeline_json_structure(timeline_json).valid
  /\ ~allow_partial_load
  /\ loading_stats' = Extend(loading_stats, validate_timeline_json_structure(timeline_json).errors)
  /\ \E duration \in AssetDurations :
       result' = Returned(create_default_timeline(duration), FALSE, "structure")
  /\ pc' = "done"
  /\ trace' = Append(trace, "validate")
  /\ UNCHANGED << store, validate_assets, allow_partial_load, timeline_json,
                  timeline, idx, fetch_raised, caught, migrateVars, codecVars, integrityVars, validatorVars, componentVars >>

\* step 2, the load goes on (valid, or invalid in partial mode)
ValidateStructure ==
  /\ pc = "step2"
  /\ ~validate_timeline_json_structure_raises(timeline_json)
  /\ validate_timeline_json_structure(timeline_json).valid \/ allow_partial_load
  /\ loading_stats' = Extend(loading_stats, validate_timeline_json_structure(timeline_json).errors)
  /\ pc' = "step3"
  /\ trace' = Append(trace, "validate")
  /\ UNCHANGED << store, validate_assets, allow_partial_load, timeline_json,
                  timeline, idx, result, fetch_raised, caught, migrateVars, codecVars, integrityVars, validatorVars, componentVars >>

\* step 3, schema_version < "2.0" raises on a version that is not a string
VersionCompareRaises ==
  /\ pc = "step3"
  /\ current_version(timeline_json) = NotStr
  /\ EnterRecover("TypeError")
  /\ UNCHANGED << store, validate_assets, allow_partial_load, timeline_json, loading_stats,
                  timeline, idx, result, fetch_raised, migrateVars, codecVars, integrityVars, validatorVars, componentVars >>

\* step 3, the migrator raises
MigrationRaises ==
  /\ pc = "step3"
  /\ current_version(timeline_json) # NotStr
  /\ IsOlderVersion(current_version(timeline_json))
  /\ migrate_timeline_schema_raises(timeline_json)
  /\ EnterRecover("MigrationError")
  /\ UNCHANGED << store, validate_assets, allow_partial_load, timeline_json, loading_stats,
                  timeline, idx, result, fetch_raised, migrateVars, codecVars, integrityVars, validatorVars, componentVars >>

\* step 3, an older document is migrated and validated again
Migration ==
  /\ pc = "step3"
  /\ current_version(timeline_json) # NotStr
  /\ IsOlderVersion(current_version(timeline_json))
  /\ ~migrate_timeline_schema_raises(timeline_json)
  /\ LET migrated == migrate_timeline_schema(timeline_json, clock)
     IN  /\ timeline_json' = migrated
         /\ loading_stats' = Extend(loading_stats,
                                    validate_timeline_json_structure(migrated).errors)
  /\ clock' = clock + 1
  /\ pc' = "step4"
  /\ trace' = trace \o << "migrate", "validate" >>
  /\ UNCHANGED << store, validate_assets, allow_partial_load, timeline, idx, result,
                  fetch_raised, caught, m_pc, m_input, m_once, m_twice, m_log,
                  codecVars, integrityVars, validatorVars, componentVars >>

\* step 3, the version is not older than the current one
NoMigration ==
  /\ pc = "step3"
  /\ current_version(timeline_json) # NotStr
  /\ ~IsOlderVersion(current_version(timeline_json))
  /\ pc' = "step4"
  /\ UNCHANGED << store, validate_assets, allow_partial_load, timeline_json, loading_stats,
                  timeline, idx, result, trace, fetch_raised, caught, migrateVars, codecVars, integrityVars, validatorVars, componentVars >>

FrameRateOf(doc) == Get(Get(doc, "timeline", << >>), "frame_rate", 30)

\* step 4 and the head of step 5 raise: frame_rate is not a number, or the
\* clips are not a list
CreateTimelineRaises ==
  /\ pc = "step4"
  /\ ~IsNum(FrameRateOf(timeline_json)) \/ ~IsList(Get(timeline_json, "clips", << >>))
  /\ IF IsNum(FrameRateOf(timeline_json)) /\ ~(1 <= FrameRateOf(timeline_json)
                                               /\ FrameRateOf(timeline_json) <= 120)
     THEN loading_stats' = Extend(loading_stats, << Err("Invalid frame rate corrected to 30.0") >>)
     ELSE loading_stats' = loading_stats
  /\ EnterRecover("TypeError")
  /\ UNCHANGED << store, validate_assets, allow_partial_load, timeline_json,
                  timeline, idx, result, fetch_raised, migrateVars, codecVars, integrityVars, validatorVars, componentVars >>

\* step 4: the frame rate is clamped and the Timeline created; step 5 begins
CreateTimeline ==
  /\ pc = "step4"
  /\ IsNum(FrameRateOf(timeline_json))
  /\ IsList(Get(timeline_json, "clips", << >>))
  /\ LET frame_rate == FrameRateOf(timeline_json)
         in_range == 1 <= frame_rate /\ frame_rate <= 120
     IN  /\ timeline' = Timeline(IF in_range THEN frame_rate ELSE 30)
         /\ loading_stats' =
              [ (IF in_range THEN loading_stats
                 ELSE Extend(loading_stats, << Err("Invalid frame rate corrected to 30.0") >>))
                EXCEPT !.total_clips = Len(Get(timeline_json, "clips", << >>)) ]
  /\ idx' = 1
  /\ pc' = "step5"
  /\ trace' = Append(trace, "create")
  /\ UNCHANGED << store, validate_assets, allow_partial_load, timeline_json, result,
                  fetch_raised, caught, migrateVars, codecVars, integrityVars, validatorVars, componentVars >>

\* check_asset_availability is called for a record that passed (or, in
\* partial mode, merely went through) validation and has a file_path
AssetCheckCalled(clip_data, check_assets, partial) ==
  /\ ~validate_clip_data_raises(clip_data)
  /\ validate_clip_data(clip_data).valid \/ partial
  /\ check_assets
  /\ Truthy(Get(clip_data, "file_path", NoneStr))

AssetTrace(clip_data, check_assets, partial, asset_exists) ==
  IF AssetCheckCalled(clip_data, check_assets, partial)
  THEN << IF asset_exists THEN "asset_found" ELSE "asset_missing" >>
  ELSE << >>

\* step 5, one clip record: loaded, or its failure counted and the loop goes on
LoadNextClip ==
  /\ pc = "step5"
  /\ idx <= loading_stats.total_clips
  /\ \E asset_exists \in BOOLEAN :
       LET r == LoadClip(timeline_json.clips[idx], timeline, loading_stats,
                         validate_assets, allow_partial_load, asset_exists)
       IN  /\ r.error = "" \/ allow_partial_load
           /\ timeline' = r.timeline
           /\ loading_stats' = r.stats
           /\ trace' = trace \o << "clip" >>
                         \o AssetTrace(timeline_json.clips[idx], validate_assets,
                                       allow_partial_load, asset_exists)
  /\ idx' = idx + 1
  /\ UNCHANGED << store, pc, validate_assets, allow_partial_load, timeline_json, result,
                  fetch_raised, caught, migrateVars, codecVars, integrityVars, validatorVars, componentVars >>

\* step 5, strict mode: the clip's error is raised again out of the loop
LoadClipAborts ==
  /\ pc = "step5"
  /\ idx <= loading_stats.total_clips
  /\ ~allow_partial_load
  /\ \E asset_exists \in BOOLEAN :
       LET r == LoadClip(timeline_json.clips[idx], timeline, loading_stats,
                         validate_assets, allow_partial_load, asset_exists)
       IN  /\ r.error # ""
           /\ loading_stats' = r.stats
           /\ pc' = "recover"
           /\ caught' = r.error
           /\ trace' = trace \o << "clip" >>
                         \o AssetTrace(timeline_json.clips[idx], validate_assets,
                                       allow_partial_load, asset_exists)
                         \o << "recover" >>
  /\ UNCHANGED << store, validate_assets, allow_partial_load, timeline_json, timeline, idx,
                  result, fetch_raised, migrateVars, codecVars, integrityVars, validatorVars, componentVars >>

\* mutant: the clips named in an overlap finding are taken off the timeline
post_load_validation_drop_overlaps(built, stats) ==
  LET findings == validate_timeline_integrity(built).errors
      named == { findings[k].b : k \in 1..Len(findings) } \ {""}
  IN  [ timeline |-> [built EXCEPT !.clips = SelectSeq(@, LAMBDA c : c.name \notin named)],
        stats |-> Extend(stats, findings) ]

\* step 6: the findings of the integrity validator join the report
post_load_validation(built, stats) ==
  [ timeline |-> built,
    stats |-> Extend(stats, validate_timeline_integrity(built).errors) ]

\* steps 6 to 8: integrity findings, metrics, the Timeline is returned
FinishLoad ==
  /\ pc = "step5"
  /\ idx > loading_stats.total_clips
  /\ LET r == post_load_validation(timeline, loading_stats)
     IN  /\ timeline' = r.timeline
         /\ loading_stats' =
              [ r.stats EXCEPT !.performance_metrics = {"load_time_ms", "clips_per_second"} ]
         /\ result' = Returned(r.timeline, TRUE, "main")
  /\ pc' = "done"
  /\ trace' = Append(trace, "integrity")
  /\ UNCHANGED << store, validate_assets, allow_partial_load, timeline_json, idx,
                  fetch_raised, caught, migrateVars, codecVars, integrityVars, validatorVars, componentVars >>

\* the except branch, strict mode: the default timeline with the report
RecoverStrict ==
  /\ pc = "recover"
  /\ ~allow_partial_load
  /\ loading_stats' = [loading_stats EXCEPT !.performance_metrics = {"load_time_ms"}]
  /\ \E duration \in AssetDurations : result' = final_fallback(timeline, duration)
  /\ pc' = "done"
  /\ UNCHANGED << store, validate_assets, allow_partial_load, timeline_json, timeline, idx,
                  trace, fetch_raised, caught, migrateVars, codecVars, integrityVars, validatorVars, componentVars >>

\* the except branch, partial mode: load_timeline_from_db_enhanced is tried
RecoverEnhanced ==
  /\ pc = "recover"
  /\ allow_partial_load
  /\ loading_stats' = [loading_stats EXCEPT !.performance_metrics = {"load_time_ms"}]
  /\ \E fetch_fails \in BOOLEAN, legacy_ok \in BOOLEAN, duration \in AssetDurations :
       LET r == load_timeline_from_db_enhanced(fetch_fails, store, legacy_ok, duration, clock)
       IN  /\ result' = IF r.kind = "raised" THEN r ELSE [r EXCEPT !.has_stats = TRUE]
           /\ fetch_raised' = IF fetch_fails THEN fetch_raised \cup {"enhanced"}
                              ELSE fetch_raised
  /\ pc' = "done"
  /\ UNCHANGED << store, validate_assets, allow_partial_load, timeline_json, timeline, idx,
                  trace, caught, migrateVars, codecVars, integrityVars, validatorVars, componentVars >>

Next ==
  \/ CallRobust
  \/ FetchRaises
  \/ FetchAbsent
  \/ FetchDocument
  \/ ValidateStructureRaises
  \/ ValidateStructureAborts
  \/ ValidateStructure
  \/ VersionCompareRaises
  \/ MigrationRaises
  \/ Migration
  \/ NoMigration
  \/ CreateTimelineRaises
  \/ CreateTimeline
  \/ LoadNextClip
  \/ LoadClipAborts
  \/ FinishLoad
  \/ RecoverStrict
  \/ RecoverEnhanced

Spec == Init /\ [][Next]_vars

\* ---------------------------------------------------- save and load again
EffectList(track_type) ==
  IF track_type = "audio" THEN << effect_from_dict(FadeEffect) >> ELSE << >>

\* the k-th clip of a timeline under construction: a valid clip
NewClip(k, track_type, track_index) ==
  [ VideoClip(Names[k], 150 * (k - 1), 150 * k - 30 * track_index, track_type,
              IF track_type = "text" THEN NoneStr ELSE "a.mp4", Ids[k], 30 * track_index,
              track_index)
    EXCEPT !.effects = EffectList(track_type) ]

InitCodec ==
  /\ c_pc = "building"
  /\ c_timeline \in { Timeline(24), Timeline(30) }
  /\ c_saved = "none"
  /\ c_loaded = NoResult
  /\ store = NotStored
  /\ LoaderIdle
  /\ MigrateIdle
  /\ IntegrityIdle
  /\ ValidatorIdle
  /\ ComponentsIdle
  /\ clock = 1

\* Timeline.add_clip of a valid clip
CodecAddClip ==
  /\ c_pc = "building"
  /\ Len(c_timeline.clips) < MaxClips
  /\ \E track_type \in TrackTypes, track_index \in {0, 1} :
       c_timeline' = add_clip(c_timeline,
                              NewClip(Len(c_timeline.clips) + 1, track_type, track_index),
                              track_index)
  /\ UNCHANGED << c_pc, c_saved, c_loaded, store, loaderLocals, migrateVars, integrityVars, validatorVars, componentVars >>

\* save_timeline_to_db_enhanced(asset_path, timeline)
CodecSave ==
  /\ c_pc = "building"
  /\ \E first_fails \in BOOLEAN, second_fails \in BOOLEAN :
       LET r == save_timeline_to_db_enhanced(c_timeline, store, first_fails, second_fails, clock)
       IN  /\ store' = r.stored
           /\ c_saved' = r.outcome
  /\ clock' = clock + 1
  /\ c_pc' = "saved"
  /\ UNCHANGED << c_timeline, c_loaded, loaderLocals, m_pc, m_input, m_once, m_twice, m_log,
                  integrityVars, validatorVars, componentVars >>

\* load_timeline_from_db_enhanced(asset_path)
CodecLoad ==
  /\ c_pc = "saved"
  /\ \E fetch_fails \in BOOLEAN, legacy_ok \in BOOLEAN, duration \in AssetDurations :
       c_loaded' = load_timeline_from_db_enhanced(fetch_fails, store, legacy_ok, duration, clock)
  /\ c_pc' = "loaded"
  /\ UNCHANGED << c_timeline, c_saved, store, loaderLocals, migrateVars, integrityVars, validatorVars, componentVars >>

NextCodec == CodecAddClip \/ CodecSave \/ CodecLoad

SpecCodec == InitCodec /\ [][NextCodec]_vars

\* ------------------------------------------------- integrity validator runs
MaxTimelineClips == 3

FrameTimes == { 0, 120, 150, 240 }

\* more than 24 hours at 30 frames per second
LongEnd == HoursLimit * 3600 * 30 + 30

\* exactly 24 hours at 30 frames per second
DayEnd == HoursLimit * 3600 * 30

ClipSpans ==
  { << a, b >> \in FrameTimes \X (FrameTimes \cup {LongEnd}) : a < b }
    \cup { << 150, 150 >>, << 0, DayEnd >> }

InitIntegrity ==
  /\ i_pc = "building"
  /\ i_timeline = Timeline(30)
  /\ i_result = [valid |-> TRUE, errors |-> << >>]
  /\ store = NotStored
  /\ LoaderIdle
  /\ MigrateIdle
  /\ CodecIdle
  /\ ValidatorIdle
  /\ ComponentsIdle
  /\ clock = 1

\* Timeline.add_clip
IntegrityAddClip ==
  /\ i_pc = "building"
  /\ Len(i_timeline.clips) < MaxTimelineClips
  /\ \E span \in ClipSpans, track_index \in {0, 1} :
       i_timeline' = add_clip(i_timeline,
                              VideoClip(Names[Len(i_timeline.clips) + 1], span[1], span[2],
                                        "video", "a.mp4", Ids[Len(i_timeline.clips) + 1], 0,
                                        track_index),
                              track_index)
  /\ UNCHANGED << i_pc, i_result, loaderVars, migrateVars, codecVars, validatorVars, componentVars >>

\* validate_timeline_integrity(timeline)
IntegrityValidate ==
  /\ i_pc = "building"
  /\ i_result' = validate_timeline_integrity(i_timeline)
  /\ i_pc' = "validated"
  /\ UNCHANGED << i_timeline, loaderVars, migrateVars, codecVars, validatorVars, componentVars >>

NextIntegrity == IntegrityAddClip \/ IntegrityValidate

SpecIntegrity == InitIntegrity /\ [][NextIntegrity]_vars

\* ------------------------------------------- robust loader: properties
ClipsOf(doc) == IF IsList(Get(doc, "clips", << >>)) THEN Get(doc, "clips", << >>) ELSE << >>

FailsValidator(record) ==
  IsDict(record) /\ ~validate_clip_data_raises(record) /\ ~validate_clip_data(record).valid

LoadRaises(record) ==
  ~IsDict(record) \/ validate_clip_data_raises(record) \/ ~IsNum(Get(record, "track", 0))

Count(seq, Test(_)) == Len(SelectSeq(seq, Test))

DefaultTimelines == { create_default_timeline(d) : d \in AssetDurations }

\* C1: in partial mode the robust loader always ends by returning a Timeline.
C1_AlwaysReturns ==
  (pc = "done" /\ allow_partial_load) => result.kind = "returned"

\* C2: once a fetch of the document has raised, the call ends by raising; no
\* Timeline is returned in its place.
C2_PersistenceNeverSwallowed ==
  (pc = "done" /\ fetch_raised # {}) => result.kind = "raised"

\* C3: in strict mode an error raised for a clip record (validation failure,
\* missing asset, construction error) is the way the call ends.
C3_StrictPropagates ==
  (pc = "done" /\ ~allow_partial_load /\ idx >= 1
     /\ caught \in {"ValueError", "FileNotFoundError", "TypeError", "AttributeError"})
    => (result.kind = "raised" /\ result.error = caught)

HasInvalidClip(doc) == \E k \in 1..Len(ClipsOf(doc)) : FailsValidator(ClipsOf(doc)[k])

DocClipIds(doc) ==
  { Get(ClipsOf(doc)[k], "id", NoneStr) : k \in 1..Len(ClipsOf(doc)) }

\* C5: in strict mode a document with a record that fails the Clip Validator
\* ends in a raise or in the Timeline of create_default_timeline, which holds
\* none of the document's clips.
C5_StrictNoPartialTimeline ==
  (pc = "done" /\ ~allow_partial_load /\ HasInvalidClip(timeline_json)) =>
    \/ result.kind = "raised"
    \/ /\ result.timeline \in DefaultTimelines
       /\ \A k \in 1..Len(result.timeline.clips) :
            result.timeline.clips[k].clip_id \notin DocClipIds(timeline_json)

C5_Witness ==
  /\ pc = "done"
  /\ ~allow_partial_load
  /\ HasInvalidClip(timeline_json)
  /\ caught = "ValueError"
  /\ Len(timeline.clips) = 1
  /\ result.kind = "returned"
  /\ result.timeline \in DefaultTimelines

\* ----------------------------------------------------- codec: properties
ClipData(tl) ==
  { [ clip_id |-> tl.clips[k].clip_id, name |-> tl.clips[k].name,
      track_type |-> tl.clips[k].track_type, track |-> tl.clips[k].track,
      start |-> tl.clips[k].start, end |-> tl.clips[k].end,
      in_point |-> tl.clips[k].in_point, effects |-> tl.clips[k].effects ] :
      k \in 1..Len(tl.clips) }

\* C6: decoding the document written by save_timeline_to_db_enhanced gives a
\* Timeline with the same clips on the same tracks, with the same frames and
\* the same effects.
C6_RoundTrip ==
  (c_pc = "loaded" /\ c_saved = "saved" /\ c_loaded.via = "enhanced") =>
    /\ ClipData(c_loaded.timeline) = ClipData(c_timeline)
    /\ Len(c_loaded.timeline.clips) = Len(c_timeline.clips)
    /\ c_loaded.timeline.frame_rate = c_timeline.frame_rate

\* ------------------------------------------ integrity validator: properties
IsOverlapFinding(e) == e.b # ""

OverlapFindings(errors) == SelectSeq(errors, IsOverlapFinding)

AdjacentPairs(tl) ==
  UNION { { << SortByStart(TrackClips(tl, tr))[k], SortByStart(TrackClips(tl, tr))[k + 1] >> :
              k \in 1..(Len(TrackClips(tl, tr)) - 1) } : tr \in Tracks(tl) }

\* C10: two clips adjacent in start order on a track are reported as an
\* overlap, with both names, exactly when the earlier one ends after the later
\* one starts; clips that touch are not reported.
C10_AdjacentOverlapReported ==
  i_pc = "validated" =>
    /\ \A pair \in AdjacentPairs(i_timeline) :
         (pair[1].end > pair[2].start)
           <=> (\E k \in 1..Len(i_result.errors) :
                  /\ IsOverlapFinding(i_result.errors[k])
                  /\ i_result.errors[k].a = pair[1].name
                  /\ i_result.errors[k].b = pair[2].name)
    /\ Len(OverlapFindings(i_result.errors))
         = Cardinality({ pair \in AdjacentPairs(i_timeline) : pair[1].end > pair[2].start })

\* [0s,5s) and [4s,8s) on track 0 at 30 frames per second
C10_Witness ==
  /\ i_pc = "validated"
  /\ Len(i_timeline.clips) = 2
  /\ i_timeline.clips[1].start = 0 /\ i_timeline.clips[1].end = 150
  /\ i_timeline.clips[2].start = 120 /\ i_timeline.clips[2].end = 240
  /\ i_timeline.clips[1].track = 0 /\ i_timeline.clips[2].track = 0
  /\ Len(OverlapFindings(i_result.errors)) = 1
  /\ i_result.errors[1].a = "n1"
  /\ i_result.errors[1].b = "n2"

Overlapping(A, B) == ~(A.end <= B.start) /\ ~(B.end <= A.start)

\* pairs (by position) of clips of one track that overlap
OverlappingPairs(tl) ==
  { p \in (1..Len(tl.clips)) \X (1..Len(tl.clips)) :
      /\ p[1] < p[2]
      /\ tl.clips[p[1]].track_type = tl.clips[p[2]].track_type
      /\ tl.clips[p[1]].track = tl.clips[p[2]].track
      /\ Overlapping(tl.clips[p[1]], tl.clips[p[2]]) }

Names2(errors) == { {errors[k].a, errors[k].b} : k \in 1..Len(errors) }

\* C11 as stated: every two clips of a track that overlap are named together
\* in an overlap finding, adjacent in start order or not.
C11_EveryOverlapReported ==
  i_pc = "validated" =>
    \A p \in OverlappingPairs(i_timeline) :
      {i_timeline.clips[p[1]].name, i_timeline.clips[p[2]].name}
        \in Names2(OverlapFindings(i_result.errors))

\* C11 amended: the findings are the pairs adjacent in start order whose
\* earlier clip ends after the later one starts, one finding for each such
\* pair (the scan goes on after a finding); two overlapping clips that are not
\* adjacent in start order are not named together, but whenever two clips of
\* a track overlap the track has at least one finding and the result is not
\* valid.
C11_AdjacentOverlapsAllReported ==
  i_pc = "validated" =>
    /\ Names2(OverlapFindings(i_result.errors))
         = { {pair[1].name, pair[2].name} :
               pair \in { q \in AdjacentPairs(i_timeline) : q[1].end > q[2].start } }
    /\ Len(OverlapFindings(i_result.errors))
         = Cardinality({ q \in AdjacentPairs(i_timeline) : q[1].end > q[2].start })
    /\ OverlappingPairs(i_timeline) # {} =>
         (~i_result.valid /\ OverlapFindings(i_result.errors) # << >>)

\* [0,240) covers [120,150) and [150,240) on track 0: the first two are
\* reported, the first and the third are not
C11_Witness ==
  /\ i_pc = "validated"
  /\ Len(i_timeline.clips) = 3
  /\ \A k \in 1..3 : i_timeline.clips[k].track = 0
  /\ i_timeline.clips[1].start = 0 /\ i_timeline.clips[1].end = 240
  /\ i_timeline.clips[2].start = 120 /\ i_timeline.clips[2].end = 150
  /\ i_timeline.clips[3].start = 150 /\ i_timeline.clips[3].end = 240
  /\ << 1, 3 >> \in OverlappingPairs(i_timeline)
  /\ Names2(OverlapFindings(i_result.errors)) = { {"n1", "n2"} }

\* ------------------------------------------------ migration: properties
LegacyClipCount(doc) ==
  Len(Flatten([ t \in 1..Len(doc.tracks) |-> doc.tracks[t].clips ]))

MarkedClipsOf(doc) ==
  Flatten([ t \in 1..Len(doc.tracks) |->
              SelectSeq(doc.tracks[t].clips, IsMarked) ])

\* C7: migrating the result of migrating a v1.0 document changes nothing, and
\* migrating a v2.0 document returns it unchanged.
C7_MigrateIdempotent ==
  /\ (m_pc = "twice" /\ m_input.version = "1.0") => m_twice = m_once
  /\ (m_pc \in {"once", "twice"} /\ m_input.version = "2.0") => m_once = m_input

C7_Witness ==
  /\ m_pc = "twice"
  /\ m_input.version = "1.0"
  /\ Len(m_once.clips) = 2
  /\ m_once.version = "2.0"
  /\ m_twice = m_once

\* C8 as stated: every clip of every track of a v1.0 document becomes a v2.0
\* clip record.
C8_EveryClipConverted ==
  (m_pc = "once" /\ m_input.version = "1.0")
    => Len(m_once.clips) = LegacyClipCount(m_input)

\* C8 amended: the v2.0 clips are the clips carrying the "_type" = "VideoClip"
\* marker, and each has timeline_start, timeline_end and in_point equal to
\* start, end and in_point divided by frame_rate (30 when absent) and duration
\* equal to (end - start) / frame_rate.
C8_MarkedClipsConverted ==
  (m_pc = "once" /\ m_input.version = "1.0") =>
    LET fr == IF "frame_rate" \in DOMAIN m_input THEN m_input.frame_rate ELSE 30
        marked == MarkedClipsOf(m_input)
    IN  /\ Len(m_once.clips) = Len(marked)
        /\ \A k \in 1..Len(marked) :
             /\ m_once.clips[k].timeline_start * fr = marked[k].start * TicksPerSecond
             /\ m_once.clips[k].timeline_end * fr = marked[k].end * TicksPerSecond
             /\ m_once.clips[k].in_point * fr = marked[k].in_point * TicksPerSecond
             /\ m_once.clips[k].duration * fr
                  = (marked[k].end - marked[k].start) * TicksPerSecond

\* frame_rate = 30, one clip start = 0, end = 150, in_point = 0
C8_Witness ==
  /\ m_pc = "once"
  /\ m_input = [version |-> "1.0", frame_rate |-> 30,
                tracks |-> << [clips |-> << Marked(LegacyClipA) >>] >>]
  /\ Len(m_once.clips) = 1
  /\ m_once.clips[1].timeline_start = 0
  /\ m_once.clips[1].timeline_end = S(5)
  /\ m_once.clips[1].duration = S(5)
  /\ m_once.clips[1].in_point = 0

\* C9: a document whose version is neither "1.0" nor "2.0" comes back from the
\* migrator unchanged, with a warning logged, and the migrator does not raise.
C9_UnknownVersionPassthrough ==
  (m_pc # "start" /\ m_input.version \notin {"1.0", "2.0"}) =>
    /\ m_pc # "raised"
    /\ m_once = m_input
    /\ \E k \in 1..Len(m_log) : m_log[k] = "WARNING: Unknown timeline schema version"

C9_Witness ==
  /\ m_pc = "once"
  /\ m_input.version = "0.5"
  /\ "tracks" \in DOMAIN m_input
  /\ Len(m_input.tracks[1].clips) = 1
  /\ m_once = m_input

\* ------------------------------------ robust loader: corrective defaulting
KeptRecords(doc) == SelectSeq(ClipsOf(doc), LAMBDA c : ~LoadRaises(c))

HasMessage(stats, m) ==
  \E k \in 1..Len(stats.validation_errors) : stats.validation_errors[k].msg = m

NegativeStart(record) ==
  "timeline_start" \in DOMAIN record /\ IsNum(record.timeline_start)
    /\ record.timeline_start < 0

EndNotAfterStart(record) ==
  /\ "timeline_start" \in DOMAIN record /\ IsNum(record.timeline_start)
  /\ "timeline_end" \in DOMAIN record /\ IsNum(record.timeline_end)
  /\ record.timeline_end <= record.timeline_start

C12_WitnessNegativeStart ==
  /\ pc = "done"
  /\ result.via = "main"
  /\ Len(KeptRecords(timeline_json)) >= 1
  /\ NegativeStart(KeptRecords(timeline_json)[1])
  /\ result.timeline.clips[1].start = 0

\* ------------------------------------------------------- save: properties
\* C13: when save_timeline_to_db_enhanced returns normally the store holds the
\* current-version document of the timeline; a failure of the encoding or of
\* the write ends in a raise, never in the silent write of another document.
C13_SaveWritesCurrentOrRaises ==
  c_saved # "none" =>
    \/ c_saved = "raised"
    \/ /\ store.present
       /\ store.doc.version = TIMELINE_SCHEMA_VERSION
       /\ "clips" \in DOMAIN store.doc

\* C14: the document written by a successful save holds every clip of the
\* Timeline exactly once, whatever its track type, and timeline.duration is
\* the maximum timeline_end of those clips (0 when there are none).
C14_AllClipsFlattened ==
  (c_saved = "saved") =>
    /\ Len(store.doc.clips) = Len(c_timeline.clips)
    /\ \A k \in 1..Len(c_timeline.clips) :
         Cardinality({ j \in 1..Len(store.doc.clips) :
                         store.doc.clips[j].id = c_timeline.clips[k].clip_id }) = 1
    /\ store.doc.timeline.duration
         = SeqMax([ k \in 1..Len(c_timeline.clips) |->
                      frames_to_seconds(c_timeline.clips[k].end, c_timeline.frame_rate) ], 0)

\* --------------------------------------- robust loader: structural failure
FailsStructure(doc) ==
  ~validate_timeline_json_structure_raises(doc) /\ ~validate_timeline_json_structure(doc).valid

\* C15: in strict mode a fetched document that fails the Structural Validator
\* ends the load with a fresh default Timeline that carries the loading
\* report, the structural errors in it.
C15_StructureFailureReportAttached ==
  (pc = "done" /\ ~allow_partial_load /\ fetch_raised = {} /\ store.present
     /\ FailsStructure(store.doc)) =>
    /\ result.kind = "returned"
    /\ result.timeline \in DefaultTimelines
    /\ result.has_stats
    /\ Range(validate_timeline_json_structure(store.doc).errors)
         \subseteq Range(loading_stats.validation_errors)

\* ------------------------------------------- robust loader: order of steps
\* the major number of a version string of the model
VersionMajor(v) ==
  CASE v = "0.5" -> 0
    [] v = "1.0" -> 1
    [] v = "2.0" -> 2
    [] v = "3.0" -> 3
    [] v = "10.0" -> 10

Positions(step) == { k \in 1..Len(trace) : trace[k] = step }

\* the steps that took place did so in the order fetch, validate, (migrate,
\* validate), create, clip ..., integrity; every migration is followed at
\* once by a validation, and the integrity check comes after all the clips
C16_StepsInOrder ==
  /\ \A k \in Positions("validate") : k = 2 \/ (k > 1 /\ trace[k - 1] = "migrate")
  /\ Len(trace) >= 2 /\ trace[1] = "fetch" => trace[2] \in {"validate", "recover"}
  /\ \A k \in Positions("migrate") :
       /\ k = 3
       /\ Len(trace) > k /\ trace[k + 1] = "validate"
  /\ \A k \in Positions("create") : \A j \in Positions("migrate") : j < k
  /\ \A k \in Positions("clip") : \E j \in Positions("create") : j < k
  /\ \A k \in Positions("integrity") :
       /\ k = Len(trace)
       /\ Cardinality(Positions("clip")) = loading_stats.total_clips
       /\ Positions("create") # {}

\* the Migrator is called only on a document whose version is older than 2.0
C16_MigratorOnlyForOlder ==
  Positions("migrate") # {} =>
    VersionMajor(current_version(store.doc)) < VersionMajor(TIMELINE_SCHEMA_VERSION)

\* C16: the steps of one load happen in a fixed order, and a document whose
\* version is the current one or a newer one is never passed to the Migrator.
C16_FixedStepOrder == C16_StepsInOrder /\ C16_MigratorOnlyForOlder

\* ------------------------------------------------- clip validator runs
AbsentNum == -999997

AbsentStr == "<absent>"

\* the members of a clip record; AbsentNum / AbsentStr leave the member out
RecordChoices ==
  [ id : {AbsentStr, "", "c1"},
    name : {AbsentStr, "", "n1"},
    timeline_start : {AbsentNum, 0, 0 - S(1), NotNum},
    timeline_end : {AbsentNum, S(5), 1, 0, NotNum},
    duration : {AbsentNum, S(5), S(5) + 1, S(5) + 2, 0, NotNum},
    in_point : {AbsentNum, 0, 0 - 1},
    track : {AbsentNum, 0, 0 - 1, NotNum},
    type : {AbsentStr, "video", "bogus"} ]

RecordOf(choice) ==
  LET keys == { k \in {"id", "name", "type"} : choice[k] # AbsentStr }
                \cup { k \in {"timeline_start", "timeline_end", "duration", "in_point", "track"} :
                         choice[k] # AbsentNum }
  IN  [ k \in keys |-> choice[k] ]

InitValidator ==
  /\ v_pc = "start"
  /\ v_record \in { RecordOf(choice) : choice \in RecordChoices }
  /\ v_result = [valid |-> TRUE, errors |-> << >>]
  /\ store = NotStored
  /\ LoaderIdle
  /\ MigrateIdle
  /\ CodecIdle
  /\ IntegrityIdle
  /\ ComponentsIdle
  /\ clock = 1

\* validate_clip_data(clip_data, timeline) returns
ValidateClip ==
  /\ v_pc = "start"
  /\ ~validate_clip_data_raises(v_record)
  /\ v_result' = validate_clip_data(v_record)
  /\ v_pc' = "returned"
  /\ UNCHANGED << v_record, loaderVars, migrateVars, codecVars, integrityVars, componentVars >>

\* validate_clip_data raises (TypeError)
ValidateClipRaises ==
  /\ v_pc = "start"
  /\ validate_clip_data_raises(v_record)
  /\ v_pc' = "raised"
  /\ UNCHANGED << v_record, v_result, loaderVars, migrateVars, codecVars, integrityVars, componentVars >>

NextValidator == ValidateClip \/ ValidateClipRaises

SpecValidator == InitValidator /\ [][NextValidator]_vars

\* --------------------------------------------- clip validator: properties
Has(record, key) == key \in DOMAIN record

\* the conditions of validity on the required members and on the positions
RequiredAndPositionsOk(record) ==
  /\ Has(record, "id") /\ record.id # ""
  /\ Has(record, "name") /\ record.name # ""
  /\ Has(record, "timeline_start") =>
       IsNum(record.timeline_start) /\ record.timeline_start >= 0
  /\ Has(record, "timeline_end") => IsNum(record.timeline_end) /\ record.timeline_end >= 0
  /\ Has(record, "timeline_start") /\ Has(record, "timeline_end") =>
       record.timeline_end > record.timeline_start

\* duration within 0.01 seconds of timeline_end - timeline_start
DurationMatches(record) ==
  Has(record, "duration") =>
    /\ IsNum(record.duration)
    /\ Has(record, "timeline_start") /\ Has(record, "timeline_end") =>
         Abs(record.duration - (record.timeline_end - record.timeline_start)) * 100
           <= TicksPerSecond

DurationPositive(record) == Has(record, "duration") => (record.duration > 0)

OtherMembersOk(record) ==
  /\ Has(record, "in_point") => IsNum(record.in_point) /\ record.in_point >= 0
  /\ Has(record, "track") => IsNum(record.track) /\ record.track >= 0
  /\ Has(record, "type") => record.type \in ValidClipTypes

C18_PartialMissingLoaded ==
  (pc = "done" /\ allow_partial_load /\ result.via = "main") =>
    /\ loading_stats.missing_assets = Cardinality(Positions("asset_missing"))
    /\ Positions("asset_missing") # {} => HasMessage(loading_stats, "Missing asset")
    /\ loading_stats.loaded_clips = Len(KeptRecords(timeline_json))
    /\ loading_stats.failed_clips
         = Len(ClipsOf(timeline_json)) - Len(KeptRecords(timeline_json))
    /\ Len(result.timeline.clips) = Len(KeptRecords(timeline_json))

\* strict mode: a missing asset ends the call with FileNotFoundError
C18_StrictMissingRaises ==
  (pc = "done" /\ ~allow_partial_load /\ Positions("asset_missing") # {}) =>
    (result.kind = "raised" /\ result.error = "FileNotFoundError")

\* without validate_assets, check_asset_availability is not called
C18_NoCheckWhenDisabled ==
  ~validate_assets =>
    /\ Positions("asset_missing") = {}
    /\ Positions("asset_found") = {}
    /\ loading_stats.missing_assets = 0

\* C18: a missing asset is reported and the clip loaded in partial mode, ends
\* the load with a resource-not-found failure in strict mode, and the asset
\* check is never called when validate_assets is false.
C18_MissingAssetHandling ==
  C18_PartialMissingLoaded /\ C18_StrictMissingRaises /\ C18_NoCheckWhenDisabled

\* --------------------------------------- robust loader: integrity findings
\* the step of a load in which the integrity validator runs
IntegrityStep == pc = "step5" /\ idx > loading_stats.total_clips /\ pc' # pc

\* C19: the integrity validator at the end of a load leaves the clips of the
\* Timeline and the counts loaded_clips and failed_clips as they are, appends
\* its findings to the validation messages, and the load ends by returning
\* that Timeline, in strict mode as in partial mode.
C19_IntegrityReportOnly ==
  [][ IntegrityStep =>
        /\ timeline' = timeline
        /\ loading_stats'.loaded_clips = loading_stats.loaded_clips
        /\ loading_stats'.failed_clips = loading_stats.failed_clips
        /\ loading_stats'.validation_errors
             = loading_stats.validation_errors \o validate_timeline_integrity(timeline).errors
        /\ pc' = "done"
        /\ result' = Returned(timeline, TRUE, "main") ]_vars

\* strict mode, [0s,5s) and [4s,8s) on one track: both clips are returned and
\* the overlap is in the report
C19_Witness ==
  /\ pc = "done"
  /\ ~allow_partial_load
  /\ result.via = "main"
  /\ Len(result.timeline.clips) = 2
  /\ loading_stats.loaded_clips = 2
  /\ loading_stats.failed_clips = 0
  /\ HasMessage(loading_stats, "Clip overlap detected on track video")

\* ---------------------------------- integrity validator: suspicious length
LongerThanADay(clip, frame_rate) == clip.end - clip.start > HoursLimit * 3600 * frame_rate

IsLengthFinding(e) == e.msg = "Suspiciously long clip"

\* C20 as stated: a Timeline without overlap and with end > start for every
\* clip is not reported as invalid, however long its clips.
C20_LongClipNotInvalid ==
  (i_pc = "validated"
     /\ OverlappingPairs(i_timeline) = {}
     /\ \A k \in 1..Len(i_timeline.clips) : i_timeline.clips[k].end > i_timeline.clips[k].start)
    => i_result.valid

\* what the validator does: a clip is flagged exactly when it is longer than
\* 24 hours of timeline time, by a "Suspiciously long clip" entry of errors
\* naming it; the entry counts as any other finding, so the result is then
\* not valid.
LongClipIsAFinding ==
  i_pc = "validated" =>
    /\ \A k \in 1..Len(i_timeline.clips) :
         LongerThanADay(i_timeline.clips[k], i_timeline.frame_rate)
           <=> (\E j \in 1..Len(i_result.errors) :
                  /\ IsLengthFinding(i_result.errors[j])
                  /\ i_result.errors[j].a = i_timeline.clips[k].name)
    /\ (\E k \in 1..Len(i_timeline.clips) :
          LongerThanADay(i_timeline.clips[k], i_timeline.frame_rate)) => ~i_result.valid
    /\ i_result.valid <=> (i_result.errors = << >>)

\* one clip of 24 hours and one second, alone on its track
LongClipAlone ==
  /\ i_pc = "validated"
  /\ Len(i_timeline.clips) = 1
  /\ i_timeline.clips[1].start = 0
  /\ i_timeline.clips[1].end = LongEnd
  /\ Len(i_result.errors) = 1
  /\ IsLengthFinding(i_result.errors[1])
  /\ ~i_result.valid

\* ------------------------------------------------------------------------
\* the state of the timeline persistence, for the runs of other components
persistenceVars == << loaderVars, migrateVars, codecVars, integrityVars, validatorVars >>

PersistenceIdle ==
  /\ store = NotStored
  /\ LoaderIdle
  /\ MigrateIdle
  /\ CodecIdle
  /\ IntegrityIdle
  /\ ValidatorIdle
  /\ clock = 1

\* ------------------------------------------- seconds-to-frames conversions
MaxSeconds == 2

\* int(): truncation towards zero
Trunc(n, d) == IF n >= 0 THEN n \div d ELSE 0 - ((0 - n) \div d)

\* ges_service.TimelineClip, seconds-indexed
TimelineClip(id, name, start, end, in_point, file_path, type, track) ==
  [ id |-> id, name |-> name, start |-> start, end |-> end, duration |-> end - start,
    in_point |-> in_point, file_path |-> file_path, type |-> type, track |-> track ]

convert_timeline_clip_to_videoclip(timeline_clip, tl) ==
  VideoClip(timeline_clip.name,
            Trunc(timeline_clip.start * tl.frame_rate, TicksPerSecond),
            Trunc(timeline_clip.end * tl.frame_rate, TicksPerSecond),
            timeline_clip.type,
            timeline_clip.file_path,
            timeline_clip.id,
            Trunc(timeline_clip.in_point * tl.frame_rate, TicksPerSecond),
            timeline_clip.track)

\* a valid clip record that starts at the given time and lasts one second
RecordAt(seconds) ==
  [ id |-> "c1", name |-> "n1", file_path |-> "a.mp4", timeline_start |-> seconds,
    timeline_end |-> seconds + S(1), duration |-> S(1), in_point |-> seconds,
    track |-> 0, type |-> "video", effects |-> << >> ]

InitConvert ==
  /\ t_pc = "start"
  /\ t_seconds \in 0..S(MaxSeconds)
  /\ t_rate \in {24, 30}
  /\ t_clip = VideoClip("", 0, 0, "video", "", "", 0, 0)
  /\ PersistenceIdle
  /\ OthersOfConvertIdle

\* create_video_clip_from_json(clip_data, timeline)
ConvertPlain ==
  /\ t_pc = "start"
  /\ t_clip' = create_video_clip_from_json(RecordAt(t_seconds), Timeline(t_rate))
  /\ t_pc' = "plain"
  /\ UNCHANGED << t_seconds, t_rate, persistenceVars, othersOfConvert >>

\* create_video_clip_from_json_robust(clip_data, timeline)
ConvertRobust ==
  /\ t_pc = "start"
  /\ t_clip' = create_video_clip_from_json_robust(RecordAt(t_seconds), Timeline(t_rate))
  /\ t_pc' = "robust"
  /\ UNCHANGED << t_seconds, t_rate, persistenceVars, othersOfConvert >>

\* convert_timeline_clip_to_videoclip(timeline_clip, timeline)
ConvertTimelineClip ==
  /\ t_pc = "start"
  /\ t_clip' = convert_timeline_clip_to_videoclip(
                  TimelineClip("c1", "n1", t_seconds, t_seconds + S(1), t_seconds,
                               "a.mp4", "video", 0),
                  Timeline(t_rate))
  /\ t_pc' = "timeline_clip"
  /\ UNCHANGED << t_seconds, t_rate, persistenceVars, othersOfConvert >>

NextConvert == ConvertPlain \/ ConvertRobust \/ ConvertTimelineClip

SpecConvert == InitConvert /\ [][NextConvert]_vars

\* |frame - seconds * frame_rate| <= 1/2
Nearest(frame, seconds, frame_rate) ==
  2 * Abs(frame * TicksPerSecond - seconds * frame_rate) <= TicksPerSecond

\* |frame / frame_rate - seconds| <= 1 / (2 * frame_rate)
BackWithinHalfFrame(frame, seconds, frame_rate) ==
  2 * frame_rate * Abs(frames_to_seconds(frame, frame_rate) - seconds) <= TicksPerSecond

\* the two constructors of the loader round to the nearest frame
LoaderConversionsRound ==
  t_pc \in {"plain", "robust"} =>
    /\ Nearest(t_clip.start, t_seconds, t_rate)
    /\ Nearest(t_clip.in_point, t_seconds, t_rate)
    /\ BackWithinHalfFrame(t_clip.start, t_seconds, t_rate)

\* C21: every conversion of a record's seconds to the frames of the clip
\* built from it gives the nearest frame, and the frame converted back is
\* within half a frame of the seconds.
C21_RoundsToNearest ==
  t_pc # "start" =>
    /\ Nearest(t_clip.start, t_seconds, t_rate)
    /\ Nearest(t_clip.end, t_seconds + S(1), t_rate)
    /\ Nearest(t_clip.in_point, t_seconds, t_rate)
    /\ BackWithinHalfFrame(t_clip.start, t_seconds, t_rate)

\* -------------------------------------------- migration: the marked clips
\* C22: the clips of a migrated v1.0 document are its marked clips, in the
\* order of the document; clips without the marker are left out with no
\* error and no warning; metadata.migrated_from is "1.0".
C22_MarkedClipsInOrder ==
  /\ (m_pc = "once" /\ m_input.version = "1.0") =>
       LET marked == MarkedClipsOf(m_input)
       IN  /\ Len(m_once.clips) = Len(marked)
           /\ \A k \in 1..Len(marked) :
                /\ m_once.clips[k].id = marked[k].clip_id
                /\ m_once.clips[k].name = marked[k].name
                /\ m_once.clips[k].type = marked[k].track_type
           /\ m_once.metadata.migrated_from = "1.0"
           /\ m_log = << "INFO: Migrating timeline schema" >>
  /\ (m_pc = "raised" /\ m_input.version = "1.0") => MarkedClipsOf(m_input) # << >>

\* an unmarked clip followed by a marked one on the same track
C22_Witness ==
  /\ m_pc = "once"
  /\ m_input.version = "1.0"
  /\ Len(m_input.tracks) = 1
  /\ m_input.tracks[1].clips = << LegacyClipA, Marked(LegacyClipB) >>
  /\ Len(m_once.clips) = 1
  /\ m_once.clips[1].id = "c2"
  /\ m_once.metadata.migrated_from = "1.0"

\* ------------------------------------------------------------------------
\* GESProjectService: every public method runs inside "with self._lock",
\* and self._lock is a threading.Lock, which its own holder cannot take again
MaxProjectClips == 1

PublicOps ==
  { "get_timeline_duration", "get_clip_info", "create_preview_pipeline",
    "add_clip_to_layer", "remove_clip_from_layer",
    "get_pipeline_status", "get_project_status", "seek_preview",
    "list_all_clips", "start_preview" }

\* the public method that the body of op calls next on an existing project,
\* after it has made calls of them; "none" when the body runs to its return
NestedCall(op, calls, clips, pipeline) ==
  CASE op = "get_pipeline_status" /\ calls = 0 -> "get_timeline_duration"
    [] op = "get_project_status" /\ calls = 0 -> "get_timeline_duration"
    [] op = "get_project_status" /\ calls = 1 -> "get_pipeline_status"
    [] op = "seek_preview" /\ calls = 0 /\ pipeline -> "get_timeline_duration"
    [] op = "list_all_clips" /\ calls < clips -> "get_clip_info"
    [] op = "start_preview" /\ calls = 0 /\ ~pipeline -> "create_preview_pipeline"
    [] OTHER -> "none"

Frame(op) == [op |-> op, pc |-> "acquire", calls |-> 0]

Top(t) == stack[t][Len(stack[t])]

SetTop(t, frame) == [stack EXCEPT ![t] = [@ EXCEPT ![Len(@)] = frame]]

Pop(frames) == SubSeq(frames, 1, Len(frames) - 1)

\* a project that create_project has just made: no clips, no pipeline
InitLock ==
  /\ lock = 0
  /\ stack = [t \in Threads |-> << >>]
  /\ clip_count = 0
  /\ preview_pipeline = FALSE
  /\ PersistenceIdle
  /\ OthersOfLockIdle

\* a thread calls a public method of the service
Call(t, op) ==
  /\ stack[t] = << >>
  /\ stack' = [stack EXCEPT ![t] = << Frame(op) >>]
  /\ UNCHANGED << lock, clip_count, preview_pipeline, persistenceVars, othersOfLock >>

\* with self._lock: Lock.acquire() returns only when nobody holds the lock
Acquire(t) ==
  /\ stack[t] # << >>
  /\ Top(t).pc = "acquire"
  /\ lock = 0
  /\ lock' = t
  /\ stack' = SetTop(t, [Top(t) EXCEPT !.pc = "held"])
  /\ UNCHANGED << clip_count, preview_pipeline, persistenceVars, othersOfLock >>

\* the body calls another public method of the service: self.<method>(...)
Nested(t) ==
  /\ stack[t] # << >>
  /\ Top(t).pc = "held"
  /\ NestedCall(Top(t).op, Top(t).calls, clip_count, preview_pipeline) # "none"
  /\ stack' = [stack EXCEPT ![t] =
       Append(@, Frame(NestedCall(Top(t).op, Top(t).calls, clip_count, preview_pipeline)))]
  /\ UNCHANGED << lock, clip_count, preview_pipeline, persistenceVars, othersOfLock >>

\* the body runs to its return; leaving the with block releases the lock
Return(t) ==
  /\ stack[t] # << >>
  /\ Top(t).pc = "held"
  /\ NestedCall(Top(t).op, Top(t).calls, clip_count, preview_pipeline) = "none"
  /\ lock' = 0
  /\ stack' = [stack EXCEPT ![t] =
       IF Len(@) = 1 THEN << >>
       ELSE [Pop(@) EXCEPT ![Len(@) - 1].calls = @ + 1]]
  /\ preview_pipeline' =
       IF Top(t).op = "create_preview_pipeline" THEN TRUE ELSE preview_pipeline
  /\ clip_count' =
       CASE Top(t).op = "add_clip_to_layer" /\ clip_count < MaxProjectClips -> clip_count + 1
         [] Top(t).op = "remove_clip_from_layer" /\ clip_count > 0 -> clip_count - 1
         [] OTHER -> clip_count
  /\ UNCHANGED << persistenceVars, othersOfLock >>

NextLock ==
  \E t \in Threads :
    \/ \E op \in PublicOps : Call(t, op)
    \/ Acquire(t)
    \/ Nested(t)
    \/ Return(t)

\* every thread keeps running, and a thread that waits for the lock gets it
\* when the lock is free again and again
FairLock ==
  \A t \in Threads : /\ WF_vars(Nested(t))
                     /\ WF_vars(Return(t))
                     /\ SF_vars(Acquire(t))

SpecLock == InitLock /\ [][NextLock]_vars /\ FairLock

\* a thread waits for the lock that it holds itself
SelfBlocked(t) ==
  /\ stack[t] # << >>
  /\ Top(t).pc = "acquire"
  /\ lock = t

\* C23: every call of a public operation on an existing project returns:
\* it takes the lock, releases it, and hands back its result.
C23_EveryCallReturns ==
  \A t \in Threads : (stack[t] # << >>) ~> (stack[t] = << >>)

\* no thread ever waits for the lock that it holds itself
NeverSelfBlocked == \A t \in Threads : ~SelfBlocked(t)

\* ------------------------------------------------------------------------
\* projects_api: add_timeline_marker and remove_timeline_marker.  The
\* handlers are coroutines without an await, so each request runs whole.
\* A marker "marker_<n>" is the record [id |-> n, ...]; project_data['markers']
\* is the set of the records, one for each key.
MaxMarkerRequests == 4

MarkerNames == {"Intro Start", "Main Content", "Conclusion"}

MarkerIds == {m.id : m \in markers}

InitMarkers ==
  /\ markers = {}
  /\ marker_adds = 0
  /\ marker_removes = 0
  /\ marker_response = NoResponse
  /\ PersistenceIdle
  /\ OthersOfMarkersIdle

\* POST /projects/{project_id}/timeline/markers
add_timeline_marker(name) ==
  /\ marker_adds + marker_removes < MaxMarkerRequests
  /\ LET marker_id == Cardinality(markers)
         marker_data == [id |-> marker_id, name |-> name]
     IN  /\ markers' = {m \in markers : m.id # marker_id} \cup {marker_data}
         /\ marker_response' = [op |-> "add", status |-> 200, marker_id |-> marker_id,
                                before |-> MarkerIds]
  /\ marker_adds' = marker_adds + 1
  /\ UNCHANGED << marker_removes, persistenceVars, othersOfMarkers >>

\* DELETE /projects/{project_id}/timeline/markers/{marker_id}
remove_timeline_marker(marker_id) ==
  /\ marker_adds + marker_removes < MaxMarkerRequests
  /\ IF marker_id \notin MarkerIds
       THEN /\ marker_response' = [op |-> "remove", status |-> 404,
                                   marker_id |-> marker_id, before |-> MarkerIds]
            /\ UNCHANGED << markers, marker_removes >>
       ELSE /\ markers' = {m \in markers : m.id # marker_id}
            /\ marker_removes' = marker_removes + 1
            /\ marker_response' = [op |-> "remove", status |-> 200,
                                   marker_id |-> marker_id, before |-> MarkerIds]
  /\ UNCHANGED << marker_adds, persistenceVars, othersOfMarkers >>

NextMarkers ==
  \/ \E name \in MarkerNames : add_timeline_marker(name)
  \/ \E marker_id \in 0..MaxMarkerRequests : remove_timeline_marker(marker_id)

SpecMarkers == InitMarkers /\ [][NextMarkers]_vars

\* the marker that the last add made has an id that no marker had before
AddedIdIsNew ==
  (marker_response.op = "add" /\ marker_response.status = 200)
    => marker_response.marker_id \notin marker_response.before

\* as many markers as adds that succeeded less removes that succeeded
MarkerCountIsAddsLessRemoves ==
  Cardinality(markers) = marker_adds - marker_removes

\* C24: every add that succeeds makes a marker whose id differs from the
\* ids of all markers present, and the number of markers is the number of
\* successful adds less the number of successful removes.
C24_MarkerIdsNewAndCounted ==
  /\ AddedIdIsNew
  /\ MarkerCountIsAddsLessRemoves

\* ------------------------------------------------------------------------
\* robust loader: legacy documents
\* a v1.0 document with a positive frame rate and a list of tracks
WellFormedLegacy(doc) ==
  /\ "version" \in DOMAIN doc /\ doc["version"] = "1.0"
  /\ "frame_rate" \in DOMAIN doc /\ doc["frame_rate"] > 0
  /\ "tracks" \in DOMAIN doc

\* what the Structural Validator finds in the stored document
StructuralErrors == Range(validate_timeline_json_structure(store.doc).errors)

\* C25: a well-formed legacy (v1.0) document is loaded, in both modes, as a
\* Timeline built from its migrated clips: the structural check that runs
\* before the migration neither replaces it with the default Timeline nor
\* puts structural errors into the report.
C25_LegacyLoadedFromMigratedClips ==
  (pc = "done" /\ fetch_raised = {} /\ store.present /\ WellFormedLegacy(store.doc)) =>
    /\ result.kind = "returned"
    /\ result.via = "main"
    /\ loading_stats.total_clips = Len(migrate_timeline_schema(store.doc, clock).clips)
    /\ Range(loading_stats.validation_errors) \cap StructuralErrors = {}

\* the same document in partial mode: the report holds structural errors
LegacyReportHasNoStructuralErrors ==
  (pc = "done" /\ allow_partial_load /\ store.present /\ WellFormedLegacy(store.doc)
     /\ result.via = "main") =>
    Range(loading_stats.validation_errors) \cap StructuralErrors = {}

\* the same document in strict mode: the default Timeline is returned
LegacyNotReplacedInStrictMode ==
  (pc = "done" /\ ~allow_partial_load /\ fetch_raised = {} /\ store.present
     /\ WellFormedLegacy(store.doc)) =>
    result.via # "structure"

\* ------------------------------------------------------------------------
\* integrity validator: the verdict and the track invariant
\* every clip ends after it starts and lasts at most 24 hours
WellTimed(tl) ==
  \A k \in 1..Len(tl.clips) :
    /\ tl.clips[k].end > tl.clips[k].start
    /\ tl.clips[k].end - tl.clips[k].start <= HoursLimit * 3600 * tl.frame_rate

\* C26: for a Timeline whose clips all end after they start and last at
\* most 24 hours, the Integrity Validator answers valid exactly when no two
\* clips of one track overlap, whichever pair that is: the scan of adjacent
\* clips never answers valid for a track that holds an overlapping pair.
C26_ValidIffTrackInvariant ==
  (i_pc = "validated" /\ WellTimed(i_timeline)) =>
    (i_result.valid <=> OverlappingPairs(i_timeline) = {})

\* two clips overlap that are not named together in any finding, and the
\* answer is not valid
C26_Witness ==
  /\ i_pc = "validated"
  /\ WellTimed(i_timeline)
  /\ ~i_result.valid
  /\ \E p \in OverlappingPairs(i_timeline) :
       {i_timeline.clips[p[1]].name, i_timeline.clips[p[2]].name}
         \notin Names2(OverlapFindings(i_result.errors))

\* ------------------------------------------------------------------------
\* robust loader: the counters of the loading report
Processed(stats) == stats.loaded_clips + stats.failed_clips

CountersWithinTotal ==
  /\ Processed(loading_stats) <= loading_stats.total_clips
  /\ loading_stats.missing_assets <= loading_stats.total_clips
  /\ pc = "step5" => Processed(loading_stats) = idx - 1
  /\ (pc = "done" /\ allow_partial_load /\ result.kind = "returned" /\ result.via = "main") =>
       /\ Processed(loading_stats) = loading_stats.total_clips
       /\ loading_stats.loaded_clips = Len(result.timeline.clips)

\* a step of the clip loop adds one to exactly one of the two counters
OneCounterPerRecord ==
  (pc = "step5" /\ idx <= loading_stats.total_clips) =>
    \/ /\ loading_stats'.loaded_clips = loading_stats.loaded_clips + 1
       /\ loading_stats'.failed_clips = loading_stats.failed_clips
       /\ Len(timeline'.clips) = Len(timeline.clips) + 1
    \/ /\ loading_stats'.loaded_clips = loading_stats.loaded_clips
       /\ loading_stats'.failed_clips = loading_stats.failed_clips + 1
       /\ timeline' = timeline

\* C27: the counters of the loading report are consistent: at every point
\* loaded_clips + failed_clips <= total_clips and missing_assets <=
\* total_clips, each clip record adds one to exactly one of loaded_clips and
\* failed_clips, and when the main path returns in partial mode
\* loaded_clips + failed_clips = total_clips and loaded_clips is the number
\* of clips of the Timeline.
C27_CountersConsistent ==
  /\ []CountersWithinTotal
  /\ [][OneCounterPerRecord]_vars

\* a partial load that ends on the main path with a clip loaded, a record
\* failed and an asset missing
C27_Witness ==
  /\ pc = "done"
  /\ allow_partial_load
  /\ result.via = "main"
  /\ loading_stats.total_clips = 2
  /\ loading_stats.loaded_clips = 1
  /\ loading_stats.failed_clips = 1
  /\ loading_stats.missing_assets >= 1

\* ------------------------------------------------------------------------
\* GESProjectService: assets and clips of one project.  Every method runs
\* inside "with self._lock" and none of these calls another locked method,
\* so the calls of concurrent threads take effect one after another.
\* project_data['assets'] and project_data['clips'] are sets of records, one
\* for each key.
MaxStoredClips == 2

MaxStoredAssets == 2

AssetPaths == {"a.mp4", "b.mp4", "notes.txt"}

SupportedPaths == {"a.mp4", "b.mp4"}

AssetKeys == {"asset_0", "asset_1", "main"}

GeneratedAssetKey(n) == IF n = 0 THEN "asset_0" ELSE "asset_1"

\* int(time.time() * 1000) at the calls of the model
Millis == {0}

\* the length of every asset, in seconds
AssetSeconds == 2

StoredAssetIds == {a.id : a \in project_assets}

StoredClipIds == {c.id : c \in project_clips}

AssetOf(asset_id) == CHOOSE a \in project_assets : a.id = asset_id

ClipOf(clip_id) == CHOOSE c \in project_clips : c.id = clip_id

\* dict[key] = value
Put(records, record) == {r \in records : r.id # record.id} \cup {record}

InitAssets ==
  /\ project_assets = {}
  /\ project_clips = {}
  /\ service_call = NoCall
  /\ PersistenceIdle
  /\ OthersOfAssetsIdle

Answer(op, asset_id, clip_id, answer) ==
  service_call' = [op |-> op, asset_id |-> asset_id, clip_id |-> clip_id, result |-> answer]

add_asset_to_project(asset_path, asset_id, duration) ==
  LET key == IF asset_id = None THEN GeneratedAssetKey(Cardinality(project_assets))
             ELSE asset_id
  IN  /\ Cardinality(project_assets) < MaxStoredAssets
      /\ IF asset_path \notin SupportedPaths
              \/ (\E a \in project_assets : a.path = asset_path)
           THEN /\ Answer("add_asset_to_project", asset_id, NoClip, None)
                /\ UNCHANGED project_assets
           ELSE /\ project_assets' =
                     Put(project_assets, [id |-> key, path |-> asset_path, duration |-> duration])
                /\ Answer("add_asset_to_project", asset_id, NoClip, key)
      /\ UNCHANGED << project_clips, persistenceVars, othersOfAssets >>

\* mutant: an asset is removed without a look at the clips that use it
remove_asset_from_project_unchecked(asset_id) ==
  /\ IF asset_id \notin StoredAssetIds
       THEN /\ Answer("remove_asset_from_project", asset_id, NoClip, "False")
            /\ UNCHANGED project_assets
       ELSE /\ project_assets' = {a \in project_assets : a.id # asset_id}
            /\ Answer("remove_asset_from_project", asset_id, NoClip, "True")
  /\ UNCHANGED << project_clips, persistenceVars, othersOfAssets >>

remove_asset_from_project(asset_id) ==
  /\ IF asset_id \notin StoredAssetIds
          \/ (\E c \in project_clips : c.asset_id = asset_id)
       THEN /\ Answer("remove_asset_from_project", asset_id, NoClip, "False")
            /\ UNCHANGED project_assets
       ELSE /\ project_assets' = {a \in project_assets : a.id # asset_id}
            /\ Answer("remove_asset_from_project", asset_id, NoClip, "True")
  /\ UNCHANGED << project_clips, persistenceVars, othersOfAssets >>

add_clip_to_layer(asset_id, start_time, duration, in_point, millis) ==
  LET clip_id == << millis, Cardinality(project_clips) >>
  IN  /\ Cardinality(project_clips) < MaxStoredClips
      /\ IF asset_id \notin StoredAssetIds
           THEN /\ Answer("add_clip_to_layer", asset_id, NoClip, None)
                /\ UNCHANGED project_clips
           ELSE IF start_time < 0 \/ duration <= 0 \/ in_point < 0
                     \/ in_point + duration > AssetOf(asset_id).duration
           THEN /\ Answer("add_clip_to_layer", asset_id, NoClip, None)
                /\ UNCHANGED project_clips
           ELSE /\ project_clips' =
                     Put(project_clips, [id |-> clip_id, asset_id |-> asset_id,
                                         start_time |-> start_time, duration |-> duration,
                                         in_point |-> in_point])
                /\ Answer("add_clip_to_layer", asset_id, clip_id, "clip_id")
      /\ UNCHANGED << project_assets, persistenceVars, othersOfAssets >>

add_title_clip_to_layer(start_time, duration, millis) ==
  LET clip_id == << millis, Cardinality(project_clips) >>
  IN  /\ Cardinality(project_clips) < MaxStoredClips
      /\ project_clips' =
           Put(project_clips, [id |-> clip_id, asset_id |-> None, start_time |-> start_time,
                               duration |-> duration, in_point |-> 0])
      /\ Answer("add_title_clip_to_layer", None, clip_id, "clip_id")
      /\ UNCHANGED << project_assets, persistenceVars, othersOfAssets >>

remove_clip_from_layer(clip_id) ==
  /\ IF clip_id \notin StoredClipIds
       THEN /\ Answer("remove_clip_from_layer", None, clip_id, "False")
            /\ UNCHANGED project_clips
       ELSE /\ project_clips' = {c \in project_clips : c.id # clip_id}
            /\ Answer("remove_clip_from_layer", None, clip_id, "True")
  /\ UNCHANGED << project_assets, persistenceVars, othersOfAssets >>

move_clip(clip_id, new_start_time) ==
  /\ IF clip_id \notin StoredClipIds
       THEN /\ Answer("move_clip", None, clip_id, "False")
            /\ UNCHANGED project_clips
       ELSE /\ project_clips' =
                 Put(project_clips, [ClipOf(clip_id) EXCEPT !.start_time = new_start_time])
            /\ Answer("move_clip", None, clip_id, "True")
  /\ UNCHANGED << project_assets, persistenceVars, othersOfAssets >>

\* project_data['assets'][asset_id] raises KeyError for a missing asset
trim_clip(clip_id, new_duration) ==
  /\ IF clip_id \notin StoredClipIds
       THEN /\ Answer("trim_clip", None, clip_id, "False")
            /\ UNCHANGED project_clips
       ELSE IF ClipOf(clip_id).asset_id # None /\ ClipOf(clip_id).asset_id \notin StoredAssetIds
       THEN /\ Answer("trim_clip", None, clip_id, "KeyError")
            /\ UNCHANGED project_clips
       ELSE IF ClipOf(clip_id).asset_id # None
                 /\ ClipOf(clip_id).in_point + new_duration
                      > AssetOf(ClipOf(clip_id).asset_id).duration
       THEN /\ Answer("trim_clip", None, clip_id, "False")
            /\ UNCHANGED project_clips
       ELSE /\ project_clips' =
                 Put(project_clips, [ClipOf(clip_id) EXCEPT !.duration = new_duration])
            /\ Answer("trim_clip", None, clip_id, "True")
  /\ UNCHANGED << project_assets, persistenceVars, othersOfAssets >>

ClipKeys == Millis \X (0..MaxStoredClips)

NextAssets ==
  \/ \E asset_path \in AssetPaths, asset_id \in {None, "main"} :
       add_asset_to_project(asset_path, asset_id, AssetSeconds)
  \/ \E asset_id \in AssetKeys : remove_asset_from_project(asset_id)
  \/ \E asset_id \in AssetKeys, duration \in {1, 2}, in_point \in {0, 1}, millis \in Millis :
       add_clip_to_layer(asset_id, 0, duration, in_point, millis)
  \/ \E millis \in Millis : add_title_clip_to_layer(0, 1, millis)
  \/ \E clip_id \in ClipKeys : remove_clip_from_layer(clip_id)
  \/ \E clip_id \in ClipKeys, new_start_time \in {0, 1} : move_clip(clip_id, new_start_time)
  \/ \E clip_id \in ClipKeys, new_duration \in {1, 2} : trim_clip(clip_id, new_duration)

SpecAssets == InitAssets /\ [][NextAssets]_vars

\* every clip with an asset_id refers to an asset of the project
ClipsReferToAssets ==
  \A c \in project_clips : c.asset_id # None => c.asset_id \in StoredAssetIds

\* the call just made was add_clip_to_layer for an asset the project lacks
AddClipUnknownAssetFails ==
  (service_call'.op = "add_clip_to_layer" /\ service_call'.asset_id \notin StoredAssetIds) =>
    /\ service_call'.result = None
    /\ project_clips' = project_clips
    /\ project_assets' = project_assets

\* the call just made was remove_asset_from_project for an asset in use
RemoveUsedAssetFails ==
  (service_call'.op = "remove_asset_from_project"
     /\ \E c \in project_clips : c.asset_id = service_call'.asset_id) =>
    /\ service_call'.result = "False"
    /\ project_clips' = project_clips
    /\ project_assets' = project_assets

\* C28: in every reachable state each clip with a non-null asset_id refers
\* to an asset of the same project; add_clip_to_layer fails for an unknown
\* asset, and remove_asset_from_project answers false and changes neither the
\* assets nor the clips while a clip uses the asset, whatever the sequence of
\* add/remove asset and add/remove/move/trim clip calls.
C28_ClipsReferToAssets ==
  /\ []ClipsReferToAssets
  /\ [][AddClipUnknownAssetFails /\ RemoveUsedAssetFails]_vars

\* the removal of an asset that a clip uses has just been refused
C28_Witness ==
  /\ service_call.op = "remove_asset_from_project"
  /\ service_call.result = "False"
  /\ \E c \in project_clips : c.asset_id = service_call.asset_id
  /\ service_call.asset_id \in StoredAssetIds

\* ------------------------------------------------------------------------
\* export_api: the life of an export job.  The endpoints and the processing
\* task are coroutines of one event loop: the code between two awaits runs
\* whole.  tasks[j] is where the task of job j stands: "created" (not yet
\* run), "rendering" (suspended at the await of the render), "done" (the
\* coroutine returned), "cancelled" (ended by task.cancel()).
FinalStatuses == {"completed", "failed", "cancelled"}

\* job.status
Status(job_id) ==
  IF jobs[job_id] = << >> THEN "absent" ELSE jobs[job_id][Len(jobs[job_id])]

InitExport ==
  /\ jobs = [j \in JobIds |-> << >>]
  /\ active_jobs = {}
  /\ tasks = [j \in JobIds |-> "none"]
  /\ cancel_answer = NoAnswer
  /\ PersistenceIdle
  /\ OthersOfExportIdle

\* ExportJobManager.update_job_status(job_id, status)
update_job_status(all, job_id, status) ==
  IF all[job_id] = << >> \/ all[job_id][Len(all[job_id])] = status THEN all
  ELSE [all EXCEPT ![job_id] = Append(@, status)]

\* POST /export/professional: create_job, create_task, register the task
export_professional(job_id) ==
  /\ Status(job_id) = "absent"
  /\ jobs' = [jobs EXCEPT ![job_id] = << "queued" >>]
  /\ tasks' = [tasks EXCEPT ![job_id] = "created"]
  /\ active_jobs' = active_jobs \cup {job_id}
  /\ UNCHANGED << cancel_answer, persistenceVars, othersOfExport >>

\* process_export_job from its start to the await of the render; raises
\* says whether the code before the await raised an Exception
ProcessStart(job_id, raises) ==
  /\ tasks[job_id] = "created"
  /\ IF raises
       THEN /\ jobs' = update_job_status(update_job_status(jobs, job_id, "processing"),
                                          job_id, "failed")
            /\ tasks' = [tasks EXCEPT ![job_id] = "done"]
       ELSE /\ jobs' = update_job_status(jobs, job_id, "processing")
            /\ tasks' = [tasks EXCEPT ![job_id] = "rendering"]
  /\ UNCHANGED << active_jobs, cancel_answer, persistenceVars, othersOfExport >>

\* process_export_job from the end of the render to its return; raises says
\* whether the render raised or left no output file
ProcessFinish(job_id, raises) ==
  /\ tasks[job_id] = "rendering"
  /\ jobs' = update_job_status(update_job_status(jobs, job_id, "processing"),
                                job_id, IF raises THEN "failed" ELSE "completed")
  /\ tasks' = [tasks EXCEPT ![job_id] = "done"]
  /\ UNCHANGED << active_jobs, cancel_answer, persistenceVars, othersOfExport >>

\* task.cancel(): a task that has not returned ends with CancelledError,
\* which "except Exception" does not catch; a task that returned is left alone
task_cancel(job_id) ==
  IF tasks[job_id] \in {"created", "rendering"}
  THEN [tasks EXCEPT ![job_id] = "cancelled"]
  ELSE tasks

\* ExportJobManager.cancel_job(job_id), for a job that exists
cancel_job(job_id) ==
  /\ Status(job_id) # "absent"
  /\ IF job_id \in active_jobs
       THEN /\ tasks' = task_cancel(job_id)
            /\ active_jobs' = active_jobs \ {job_id}
            /\ jobs' = update_job_status(jobs, job_id, "cancelled")
            /\ cancel_answer' = [job_id |-> job_id, answer |-> TRUE,
                                 status_before |-> Status(job_id)]
       ELSE /\ cancel_answer' = [job_id |-> job_id, answer |-> FALSE,
                                 status_before |-> Status(job_id)]
            /\ UNCHANGED << jobs, active_jobs, tasks >>
  /\ UNCHANGED << persistenceVars, othersOfExport >>

NextExport ==
  \E job_id \in JobIds :
    \/ export_professional(job_id)
    \/ \E raises \in BOOLEAN : ProcessStart(job_id, raises)
    \/ \E raises \in BOOLEAN : ProcessFinish(job_id, raises)
    \/ cancel_job(job_id)

SpecExport == InitExport /\ [][NextExport]_vars

\* the statuses of a job, one after another, go queued -> processing -> final
StatusStep(before, after) ==
  \/ before = "queued" /\ after = "processing"
  \/ before = "processing" /\ after \in FinalStatuses

StatusesInOrder ==
  \A j \in JobIds :
    /\ jobs[j] # << >> => jobs[j][1] = "queued"
    /\ \A k \in 1..(Len(jobs[j]) - 1) : StatusStep(jobs[j][k], jobs[j][k + 1])

\* a final status is never left
FinalStatusesAbsorbing ==
  \A j \in JobIds : \A k \in 1..(Len(jobs[j]) - 1) : jobs[j][k] \notin FinalStatuses

\* cancel_job answers false for a job that had finished
CancelFinishedAnswersFalse ==
  cancel_answer.status_before \in FinalStatuses => ~cancel_answer.answer

\* C29: the status of an export job follows queued -> processing ->
\* (completed | failed | cancelled); a final status is absorbing (no later
\* cancel_job and no later update of the processing task changes it), and
\* cancel_job answers false for a job that has finished.
C29_StatusesFollowOrder ==
  /\ StatusesInOrder
  /\ FinalStatusesAbsorbing
  /\ CancelFinishedAnswersFalse

\* ------------------------------------------------------------------------
\* cache_service: InMemoryCache.  self.cache is a dict: the sequence of its
\* entries in insertion order, one for each key.  now is time.time(); a call
\* reads the clock when it evicts the expired entries and again afterwards,
\* and elapsed is the time that passed between the two readings.
MaxCacheSize == 2

MaxTime == 2

default_ttl == 2

CacheKeys == {"k1", "k2", "k3"}

CacheValues == {"v1"}

\* ttl arguments; NoneNum is the omitted argument
Ttls == {NoneNum, 0 - 1, 0, 1}

RECURSIVE InsertByAccess(_, _)
InsertByAccess(sorted, entry) ==
  IF sorted = << >> THEN << entry >>
  ELSE IF Head(sorted).last_accessed <= entry.last_accessed
       THEN << Head(sorted) >> \o InsertByAccess(Tail(sorted), entry)
  ELSE << entry >> \o sorted

\* sorted(self.cache.items(), key = last_accessed): stable
RECURSIVE SortByAccess(_)
SortByAccess(entries) ==
  IF entries = << >> THEN << >>
  ELSE InsertByAccess(SortByAccess(SubSeq(entries, 1, Len(entries) - 1)),
                      entries[Len(entries)])

HasKey(entries, key) == \E k \in 1..Len(entries) : entries[k].key = key

EntryOf(entries, key) == entries[CHOOSE k \in 1..Len(entries) : entries[k].key = key]

Expired(entry, current_time) ==
  entry.expires_at # NoneNum /\ entry.expires_at # 0 /\ current_time > entry.expires_at

evict_expired(entries, current_time) ==
  SelectSeq(entries, LAMBDA e : ~Expired(e, current_time))

\* mutant: a full cache is brought down to max_size entries, not below
evict_lru_to_max_size(entries, size) ==
  IF Len(entries) >= size
  THEN LET keys_to_remove ==
             { SortByAccess(entries)[k].key : k \in 1..(Len(entries) - size) }
       IN  SelectSeq(entries, LAMBDA e : e.key \notin keys_to_remove)
  ELSE entries

evict_lru(entries, size) ==
  IF Len(entries) >= size
  THEN LET keys_to_remove ==
             { SortByAccess(entries)[k].key : k \in 1..(Len(entries) - size + 1) }
       IN  SelectSeq(entries, LAMBDA e : e.key \notin keys_to_remove)
  ELSE entries

\* self.cache[key] = entry
PutEntry(entries, entry) ==
  IF HasKey(entries, entry.key)
  THEN [ k \in 1..Len(entries) |-> IF entries[k].key = entry.key THEN entry ELSE entries[k] ]
  ELSE Append(entries, entry)

InitCache ==
  /\ cache = << >>
  /\ max_size \in 1..MaxCacheSize
  /\ now = 0
  /\ cache_answer = NoGet
  /\ PersistenceIdle
  /\ OthersOfCacheIdle

\* time passes between two calls
Tick ==
  /\ now < MaxTime
  /\ now' = now + 1
  /\ UNCHANGED << cache, max_size, cache_answer, persistenceVars, othersOfCache >>

\* InMemoryCache.get(key)
CacheGet(key, elapsed) ==
  /\ now + elapsed <= MaxTime
  /\ LET kept == evict_expired(cache, now)
     IN  IF HasKey(kept, key)
         THEN /\ cache' = PutEntry(kept, [EntryOf(kept, key) EXCEPT
                                            !.last_accessed = now + elapsed])
              /\ cache_answer' = [key |-> key, value |-> EntryOf(kept, key).value,
                                  expires_at |-> EntryOf(kept, key).expires_at,
                                  checked_at |-> now]
         ELSE /\ cache' = kept
              /\ cache_answer' = [key |-> key, value |-> NoValue, expires_at |-> NoneNum,
                                  checked_at |-> now]
  /\ now' = now + elapsed
  /\ UNCHANGED << max_size, persistenceVars, othersOfCache >>

\* InMemoryCache.set(key, value, ttl)
CacheSet(key, value, ttl, elapsed) ==
  /\ now + elapsed <= MaxTime
  /\ LET kept == evict_lru(evict_expired(cache, now), max_size)
         ttl1 == IF ttl = NoneNum \/ ttl = 0 THEN default_ttl ELSE ttl
         expires_at == IF ttl1 > 0 THEN now + elapsed + ttl1 ELSE NoneNum
     IN  cache' = PutEntry(kept, [key |-> key, value |-> value, expires_at |-> expires_at,
                                  last_accessed |-> now + elapsed])
  /\ now' = now + elapsed
  /\ UNCHANGED << max_size, cache_answer, persistenceVars, othersOfCache >>

\* InMemoryCache.delete(key)
CacheDelete(key) ==
  /\ HasKey(cache, key)
  /\ cache' = SelectSeq(cache, LAMBDA e : e.key # key)
  /\ UNCHANGED << max_size, now, cache_answer, persistenceVars, othersOfCache >>

\* InMemoryCache.clear()
CacheClear ==
  /\ cache # << >>
  /\ cache' = << >>
  /\ UNCHANGED << max_size, now, cache_answer, persistenceVars, othersOfCache >>

NextCache ==
  \/ Tick
  \/ \E key \in CacheKeys, elapsed \in {0, 1} : CacheGet(key, elapsed)
  \/ \E key \in CacheKeys, value \in CacheValues, ttl \in Ttls, elapsed \in {0, 1} :
       CacheSet(key, value, ttl, elapsed)
  \/ \E key \in CacheKeys : CacheDelete(key)
  \/ CacheClear

SpecCache == InitCache /\ [][NextCache]_vars

\* C30: after any sequence of set, get, delete and clear the cache holds at
\* most max_size entries, and the value that get returned belongs to an
\* entry whose expiry time had not passed when get looked at the clock.
C30_BoundedAndFresh ==
  /\ Len(cache) <= max_size
  /\ \A k, m \in 1..Len(cache) : cache[k].key = cache[m].key => k = m
  /\ cache_answer.value # NoValue =>
       ~Expired([expires_at |-> cache_answer.expires_at], cache_answer.checked_at)

\* a full cache, and a get that returned a value at the very instant of the
\* entry's expiry
C30_Witness ==
  /\ Len(cache) = max_size
  /\ max_size = MaxCacheSize
  /\ cache_answer.value # NoValue
  /\ cache_answer.expires_at = cache_answer.checked_at

====
